---- MODULE Spec2Model ----
(***************************************************************************)
(* smart-run: format detection, conversion, aggregation, migration writing *)
(* and linting of package-script annotations.                              *)
(*                                                                         *)
(* Strings are sequences of one-character strings, so that the prefix      *)
(* tests and the regular-expression replacements of the source are         *)
(* computed, not assumed.  A JavaScript object with string keys is an      *)
(* ordered map: a sequence of <<key, value>> pairs with distinct keys, in  *)
(* insertion order.                                                        *)
(***************************************************************************)
EXTENDS Integers, Sequences, FiniteSets, TLC

VARIABLES
    pkg,        \* package.json on disk (the manifest)
    yamlFile,   \* package-meta.yaml on disk (the YAML sidecar)
    jsonFile,   \* package-meta.json on disk (the JSON sidecar)
    pc,         \* position of the running command
    out         \* what the running command has computed so far

vars == <<pkg, yamlFile, jsonFile, pc, out>>

-----------------------------------------------------------------------------
(* Bounds of the model *)

MaxScripts == 2

-----------------------------------------------------------------------------
(* JavaScript values *)

\* a property that is not there, and a property whose value is undefined
Absent == <<"%absent">>
Undef == <<"%undefined">>

\* JavaScript truthiness of a string-or-undefined value
Truthy(v) == v # <<>> /\ v # Undef /\ v # Absent

\* a || b
Or(a, b) == IF Truthy(a) THEN a ELSE b

\* a ?? b
Nullish(a, b) == IF a = Undef \/ a = Absent THEN b ELSE a

StartsWith(s, p) == Len(s) >= Len(p) /\ SubSeq(s, 1, Len(p)) = p

Drop(s, n) == SubSeq(s, n + 1, Len(s))

IsSpace(c) == c \in {" ", "\n", "\t"}

RECURSIVE StripLeadingSpace(_)
StripLeadingSpace(s) ==
    IF s # <<>> /\ IsSpace(Head(s)) THEN StripLeadingSpace(Tail(s)) ELSE s

RECURSIVE StripTrailingSpace(_)
StripTrailingSpace(s) ==
    IF s # <<>> /\ IsSpace(s[Len(s)])
    THEN StripTrailingSpace(SubSeq(s, 1, Len(s) - 1))
    ELSE s

\* s.replace(/:?\s*$/, '')
StripColonSpaceEnd(s) ==
    LET t == StripTrailingSpace(s)
    IN  IF t # <<>> /\ t[Len(t)] = ":" THEN SubSeq(t, 1, Len(t) - 1) ELSE t

\* s.replace(/^#\s*/, '')
StripHashStart(s) ==
    IF s # <<>> /\ Head(s) = "#" THEN StripLeadingSpace(Tail(s)) ELSE s

UpperChar(c) ==
    CASE c = "a" -> "A" [] c = "b" -> "B" [] c = "d" -> "D" [] c = "e" -> "E"
      [] c = "i" -> "I" [] c = "l" -> "L" [] c = "o" -> "O" [] c = "p" -> "P"
      [] c = "s" -> "S" [] c = "t" -> "T" [] c = "u" -> "U" [] c = "v" -> "V"
      [] c = "y" -> "Y" [] OTHER -> c

ToUpperCase(s) == [i \in 1..Len(s) |-> UpperChar(s[i])]

\* Ordered maps
MapKeys(m) == [i \in 1..Len(m) |-> m[i][1]]
KeySet(m) == {m[i][1] : i \in 1..Len(m)}
Has(m, k) == k \in KeySet(m)
Get(m, k) == IF Has(m, k) THEN m[CHOOSE i \in 1..Len(m) : m[i][1] = k][2] ELSE Undef

Range(s) == {s[i] : i \in 1..Len(s)}

RECURSIVE Flatten(_)
Flatten(ss) == IF ss = <<>> THEN <<>> ELSE Head(ss) \o Flatten(Tail(ss))

\* the sequences over S of length n with no repeated key (S: <<key, value>> pairs)
RECURSIVE DistinctKeySeqs(_, _)
DistinctKeySeqs(S, n) ==
    IF n = 0 THEN {<<>>}
    ELSE LET shorter == DistinctKeySeqs(S, n - 1)
         IN  shorter \cup
             {Append(m, e) : <<m, e>> \in
                 {x \in shorter \X S : Len(x[1]) = n - 1 /\ ~Has(x[1], x[2][1])}}

-----------------------------------------------------------------------------
(* The strings of the model *)

pNlHash == <<"\n", "#">>
pComment == <<"c", "o", "m", "m", "e", "n", "t", ":">>
pHashSpace == <<"#", " ">>
pQuestion == <<"?">>

kBuild == <<"b", "u", "i", "l", "d">>
kTest == <<"t", "e", "s", "t">>
kDeploy == <<"d", "e", "p", "l", "o", "y">>
kHdrNl == <<"\n", "#", " ", "D", "E", "V", ":">>
kHdrComment == pComment \o <<"d", "e", "v">>
kHdrHash == <<"#", " ", "Q", "A">>
kQBuild == <<"?">> \o kBuild

cWebpack == <<"w", "p">>
cJest == <<"j", "e", "s", "t">>
cHdrValue == <<"#", " ", "D", "E", "V">>
cEcho == <<"e", "c", "h", "o", " ", "-", "n", " ", "'", "B", "'">>

dBuild == <<"B", "u", "i", "l", "d", "s">>
dDeploy == <<"S", "h", "i", "p", "s">>
dInfo == <<"I", "n", "f", "o">>

nAvailable == <<"A", "v", "a", "i", "l", "a", "b", "l", "e", " ", "S", "c", "r", "i", "p", "t", "s">>
nScripts == <<"S", "c", "r", "i", "p", "t", "s">>
nGroupA == <<"A">>
nGroupB == <<"B">>

\* `Run ${key} script`
RunKeyScript(k) == <<"R", "u", "n", " ">> \o k \o <<" ", "s", "c", "r", "i", "p", "t">>

\* a descriptor {key, description, title?, emoji?}
Desc(k, d) == [key |-> k, description |-> d, title |-> Absent, emoji |-> Absent]
Group(n, ss) == [name |-> n, scripts |-> ss]

-----------------------------------------------------------------------------
(* core/scripts: the readers of the manifest's legacy fields *)

ScriptsOf(p) == p.scripts

\* getNtlDescriptions: pkg.ntl?.descriptions || {}
getNtlDescriptions(p) == IF p.hasNtl THEN p.ntl ELSE <<>>

\* /^-[eEn]+\s+/ : the length of the match at the start of s, 0 when none
RECURSIVE FlagRun(_, _)
FlagRun(s, i) ==
    IF i <= Len(s) /\ s[i] \in {"e", "E", "n"} THEN FlagRun(s, i + 1) ELSE i

FlagMatchLen(s) ==
    IF s = <<>> \/ Head(s) # "-" THEN 0
    ELSE LET j == FlagRun(s, 2)
             rest == Drop(s, j - 1)
         IN  IF j = 2 \/ rest = <<>> \/ ~IsSpace(Head(rest)) THEN 0
             ELSE Len(s) - Len(StripLeadingSpace(rest))

RECURSIVE StripFlags(_)
StripFlags(s) ==
    IF FlagMatchLen(s) = 0 THEN s ELSE StripFlags(Drop(s, FlagMatchLen(s)))

IsQuote(c) == c \in {"'", "\""}

\* s.replace(/^["']|["']$/g, '')
StripQuotes(s) ==
    LET a == IF s # <<>> /\ IsQuote(Head(s)) THEN Tail(s) ELSE s
    IN  IF a # <<>> /\ IsQuote(a[Len(a)]) THEN SubSeq(a, 1, Len(a) - 1) ELSE a

extractDescriptionFromEcho(command) ==
    LET s1 == StripLeadingSpace(command)
        after == Drop(s1, 4)
        matches == /\ StartsWith(s1, <<"e", "c", "h", "o">>)
                   /\ after # <<>>
                   /\ IsSpace(Head(after))
    IN  IF ~matches THEN command
        ELSE StripQuotes(StripFlags(StripLeadingSpace(after)))

\* the descriptions read off the `?`-prefixed scripts
QuestionDescriptions(scripts) ==
    LET qs == SelectSeq(scripts, LAMBDA e : StartsWith(e[1], pQuestion))
    IN  [i \in 1..Len(qs) |-> <<Drop(qs[i][1], 1), extractDescriptionFromEcho(qs[i][2])>>]

\* getNpmScriptsInfoDescriptions
getNpmScriptsInfoDescriptions(p) ==
    IF p.hasInfo THEN p.info ELSE QuestionDescriptions(ScriptsOf(p))

-----------------------------------------------------------------------------
(* migration/convert: one converter per legacy format *)

convertNtlToSmartRun(p) ==
    LET descriptions == getNtlDescriptions(p)
        kept == SelectSeq(ScriptsOf(p), LAMBDA e :
                    /\ ~StartsWith(e[1], pNlHash)
                    /\ ~StartsWith(e[1], pComment)
                    /\ e[2] # <<>>)
    IN  [i \in 1..Len(kept) |->
            Desc(kept[i][1],
                 Or(Or(Get(descriptions, kept[i][1]), kept[i][2]), RunKeyScript(kept[i][1])))]

convertScriptsInfoToSmartRun(p) ==
    LET scriptsInfo == getNpmScriptsInfoDescriptions(p)
        kept == SelectSeq(ScriptsOf(p), LAMBDA e :
                    /\ ~StartsWith(e[1], pNlHash)
                    /\ ~StartsWith(e[1], pQuestion)
                    /\ e[2] # <<>>)
    IN  << Group(nAvailable,
             [i \in 1..Len(kept) |->
                Desc(kept[i][1],
                     Or(Or(Get(scriptsInfo, kept[i][1]), kept[i][2]),
                        RunKeyScript(kept[i][1])))]) >>

convertScriptsDescriptionToSmartRun(p) ==
    LET scriptsDescription == IF p.hasSD THEN p.sd ELSE <<>>
        kept == SelectSeq(ScriptsOf(p), LAMBDA e :
                    ~StartsWith(e[1], pNlHash) \/ e[2] # <<>>)
    IN  << Group(nAvailable,
             [i \in 1..Len(kept) |->
                Desc(kept[i][1],
                     Or(Or(Get(scriptsDescription, kept[i][1]), kept[i][2]),
                        RunKeyScript(kept[i][1])))]) >>

\* the header test of the header-organization converter
IsOrgHeader(k, v) ==
    \/ StartsWith(k, pNlHash)
    \/ StartsWith(k, pComment)
    \/ (StartsWith(k, pHashSpace) /\ v = <<>>)

HasOrgPrefix(k) ==
    StartsWith(k, pNlHash) \/ StartsWith(k, pComment) \/ StartsWith(k, pHashSpace)

OrgCategoryName(k, v) ==
    IF StartsWith(k, pComment)
    THEN StripHashStart(Or(v, ToUpperCase(Drop(k, Len(pComment)))))
    ELSE IF StartsWith(k, pNlHash)
    THEN StripColonSpaceEnd(StripLeadingSpace(Drop(k, Len(pNlHash))))
    ELSE StripColonSpaceEnd(StripHashStart(k))

\* groups.find((g) => g.name === 'Scripts') and the push into it
PushToScripts(groups, d) ==
    LET gs == IF \E i \in 1..Len(groups) : groups[i].name = nScripts
              THEN groups ELSE Append(groups, Group(nScripts, <<>>))
        at == CHOOSE i \in 1..Len(gs) :
                 /\ gs[i].name = nScripts
                 /\ \A j \in 1..(i - 1) : gs[j].name # nScripts
    IN  [gs EXCEPT ![at].scripts = Append(@, d)]

\* one iteration of the converter's loop; st = [groups, hasCur, cur]
OrgStep(st, e) ==
    LET k == e[1]
        v == e[2]
        d == Desc(k, Or(v, RunKeyScript(k)))
    IN  IF IsOrgHeader(k, v)
        THEN [groups |-> IF st.hasCur THEN Append(st.groups, st.cur) ELSE st.groups,
              hasCur |-> TRUE,
              cur |-> Group(OrgCategoryName(k, v), <<>>)]
        ELSE IF st.hasCur /\ ~HasOrgPrefix(k)
        THEN [st EXCEPT !.cur.scripts = Append(@, d)]
        ELSE IF ~st.hasCur /\ ~HasOrgPrefix(k)
        THEN [st EXCEPT !.groups = PushToScripts(@, d)]
        ELSE st

RECURSIVE OrgLoop(_, _)
OrgLoop(st, entries) ==
    IF entries = <<>> THEN st ELSE OrgLoop(OrgStep(st, Head(entries)), Tail(entries))

Reverse(s) == [i \in 1..Len(s) |-> s[Len(s) + 1 - i]]

\* the converter with its groups emitted last header first
convertNpmScriptsReversed(p) ==
    LET st == OrgLoop([groups |-> <<>>, hasCur |-> FALSE, cur |-> Group(<<>>, <<>>)],
                      ScriptsOf(p))
    IN  Reverse(IF st.hasCur THEN Append(st.groups, st.cur) ELSE st.groups)

convertNpmScriptsToSmartRun(p) ==
    LET st == OrgLoop([groups |-> <<>>, hasCur |-> FALSE, cur |-> Group(<<>>, <<>>)],
                      ScriptsOf(p))
    IN  IF st.hasCur THEN Append(st.groups, st.cur) ELSE st.groups

\* the mixed-shape entries of better-scripts: a string, a pair, an object or null
BetterString(d) == [tag |-> "string", command |-> Absent, description |-> d, alias |-> Absent]
BetterPair(c, d) == [tag |-> "array", command |-> c, description |-> d, alias |-> Absent]
BetterObject(c, d, a) == [tag |-> "object", command |-> c, description |-> d, alias |-> a]
BetterNull == [tag |-> "null", command |-> Absent, description |-> Absent, alias |-> Absent]

\* the UTF-16 code units of U+1F680 and of U+1F3D7, and the variation selector
uRocket == <<"uD83D", "uDE80">>
uCrane == <<"uD83C", "uDFD7">>
uVariant == <<"uFE0F">>

\* the characters of one code unit that have the Emoji property
KeycapChars == {"#", "*", "0", "1", "2", "3", "4", "5", "6", "7", "8", "9"}

\* /[\p{Emoji}]/u.test(s): the Emoji property also holds of # * and the digits
HasEmojiCodePoint(s) ==
    \/ \E i \in 1..Len(s) : s[i] \in KeycapChars
    \/ \E i \in 1..(Len(s) - 1) : <<s[i], s[i + 1]>> \in {uRocket, uCrane}

HasSpaceChar(s) == \E i \in 1..Len(s) : s[i] = " "
FirstSpace(s) == CHOOSE i \in 1..Len(s) : s[i] = " " /\ \A j \in 1..(i - 1) : s[j] # " "

Trim(s) == StripTrailingSpace(StripLeadingSpace(s))

\* an alias whose emoji is found but whose title stays the whole alias
AliasPartsWholeTitle(alias) ==
    IF ~Truthy(alias) THEN <<Undef, Undef>>
    ELSE IF ~HasSpaceChar(alias) THEN <<alias, Undef>>
    ELSE LET first == SubSeq(alias, 1, FirstSpace(alias) - 1)
             hasEmoji == HasEmojiCodePoint(first) /\ Len(first) <= 4
         IN  IF hasEmoji THEN <<alias, first>>
             ELSE <<alias, Undef>>

\* the title and emoji an alias gives: <<title, emoji>>
AliasParts(alias) ==
    IF ~Truthy(alias) THEN <<Undef, Undef>>
    ELSE IF ~HasSpaceChar(alias) THEN <<alias, Undef>>
    ELSE LET first == SubSeq(alias, 1, FirstSpace(alias) - 1)
             hasEmoji == HasEmojiCodePoint(first) /\ Len(first) <= 4
         IN  IF hasEmoji THEN <<Trim(Drop(alias, FirstSpace(alias))), first>>
             ELSE <<alias, Undef>>

BetterDescription(config, fallback) ==
    CASE config.tag = "string" -> config.description
      [] config.tag = "array" ->
            IF config.description # Absent THEN Or(config.description, config.command)
            ELSE IF config.command # Absent THEN config.command
            ELSE fallback
      [] config.tag = "object" ->
            IF Truthy(config.description) THEN config.description
            ELSE IF Truthy(config.command) THEN config.command
            ELSE fallback
      [] OTHER -> fallback

\* the record convertBetterScriptsToSmartRun returns, as descriptors in key order
convertBetterScriptsToSmartRun(p) ==
    LET better == IF p.hasBetter THEN p.better ELSE <<>>
        one(key, config) ==
            LET parts == IF config.tag = "object" THEN AliasParts(config.alias)
                         ELSE <<Undef, Undef>>
            IN  [key |-> key,
                 description |->
                    BetterDescription(config, Or(Get(ScriptsOf(p), key), RunKeyScript(key))),
                 title |-> IF Truthy(parts[1]) THEN parts[1] ELSE Absent,
                 emoji |-> IF Truthy(parts[2]) THEN parts[2] ELSE Absent]
    IN  [i \in 1..Len(better) |-> one(better[i][1], better[i][2])]

\* monorepo/detect.ts: the converters that also look for an emoji

\* /^([\p{Emoji}]+)/u: the leading run of code points with the Emoji property
RECURSIVE EmojiRun(_)
EmojiRun(s) ==
    IF s = <<>> THEN <<>>
    ELSE IF Head(s) \in KeycapChars THEN <<Head(s)>> \o EmojiRun(Tail(s))
    ELSE IF Len(s) >= 2 /\ SubSeq(s, 1, 2) \in {uRocket, uCrane}
    THEN SubSeq(s, 1, 2) \o EmojiRun(Drop(s, 2))
    ELSE <<>>

\* normalizeEmoji: the crane gets its variation selector
normalizeEmoji(emoji) == IF emoji = uCrane THEN uCrane \o uVariant ELSE emoji

extractEmoji(description) ==
    IF EmojiRun(description) = <<>> THEN Undef
    ELSE normalizeEmoji(Trim(EmojiRun(description)))

\* convertNtlToSmartRun of monorepo/detect.ts, as descriptors in key order
Detect_convertNtlToSmartRun(p) ==
    LET descriptions == getNtlDescriptions(p)
        kept == SelectSeq(ScriptsOf(p), LAMBDA e :
                    /\ ~StartsWith(e[1], pNlHash)
                    /\ ~StartsWith(e[1], pComment)
                    /\ e[2] # <<>>)
        one(key, description) ==
            [key |-> key, description |-> description, title |-> Absent,
             emoji |-> IF Truthy(extractEmoji(description))
                       THEN extractEmoji(description) ELSE Absent]
    IN  [i \in 1..Len(kept) |->
            one(kept[i][1],
                Or(Or(Get(descriptions, kept[i][1]), kept[i][2]), RunKeyScript(kept[i][1])))]

-----------------------------------------------------------------------------
(* formats/registry *)

SmartRunFormat == [name |-> "smart-run", priority |-> 200]
NtlFormat == [name |-> "ntl", priority |-> 100]
ScriptsInfoFormat == [name |-> "scripts-info", priority |-> 80]
ScriptsDescriptionFormat == [name |-> "scripts-description", priority |-> 70]
NpmScriptsOrgFormat == [name |-> "npm-scripts-org", priority |-> 60]
BasicFormat == [name |-> "basic", priority |-> 10]
NoFormat == [name |-> "none", priority |-> 0]

\* the order in which createDefaultRegistry registers
DefaultFormats ==
    <<SmartRunFormat, NtlFormat, ScriptsInfoFormat, ScriptsDescriptionFormat,
      NpmScriptsOrgFormat, BasicFormat>>

\* format.detect with a header detector that also asks for an empty value
FormatDetectEmptyValue(f, p) ==
    CASE f.name = "smart-run" -> p.hasMeta /\ Len(p.metaGroups) > 0
      [] f.name = "ntl" -> p.hasNtl
      [] f.name = "scripts-info" ->
            p.hasInfo \/ \E i \in 1..Len(ScriptsOf(p)) : StartsWith(ScriptsOf(p)[i][1], pQuestion)
      [] f.name = "scripts-description" -> p.hasSD
      [] f.name = "npm-scripts-org" ->
            \E i \in 1..Len(ScriptsOf(p)) :
                HasOrgPrefix(ScriptsOf(p)[i][1]) /\ ScriptsOf(p)[i][2] = <<>>
      [] f.name = "basic" -> Len(ScriptsOf(p)) > 0
      [] OTHER -> FALSE

\* format.detect(pkg, configFiles)
FormatDetect(f, p) ==
    CASE f.name = "smart-run" -> p.hasMeta /\ Len(p.metaGroups) > 0
      [] f.name = "ntl" -> p.hasNtl
      [] f.name = "scripts-info" ->
            p.hasInfo \/ \E i \in 1..Len(ScriptsOf(p)) : StartsWith(ScriptsOf(p)[i][1], pQuestion)
      [] f.name = "scripts-description" -> p.hasSD
      [] f.name = "npm-scripts-org" ->
            \E i \in 1..Len(ScriptsOf(p)) : HasOrgPrefix(ScriptsOf(p)[i][1])
      [] f.name = "basic" -> Len(ScriptsOf(p)) > 0
      [] OTHER -> FALSE

\* the parse of the ntl format: key and description only
NtlParse(p) ==
    LET res == convertNtlToSmartRun(p)
    IN  << Group(nAvailable, [i \in 1..Len(res) |-> Desc(res[i].key, res[i].description)]) >>

\* a fallback that leaves out the scripts with an empty command
BasicParseNonEmpty(p) ==
    LET kept == SelectSeq(ScriptsOf(p), LAMBDA e : ~StartsWith(e[1], pNlHash) /\ e[2] # <<>>)
    IN  << Group(nAvailable,
             [i \in 1..Len(kept) |->
                Desc(kept[i][1], Nullish(Get(ScriptsOf(p), kept[i][1]), <<>>))]) >>

\* the parse of the basic fallback
BasicParse(p) ==
    LET kept == SelectSeq(ScriptsOf(p), LAMBDA e : ~StartsWith(e[1], pNlHash))
    IN  << Group(nAvailable,
             [i \in 1..Len(kept) |->
                Desc(kept[i][1], Nullish(Get(ScriptsOf(p), kept[i][1]), <<>>))]) >>

\* format.parse(pkg, configFiles)
FormatParse(f, p) ==
    CASE f.name = "smart-run" -> IF p.hasMeta THEN p.metaGroups ELSE <<>>
      [] f.name = "ntl" -> NtlParse(p)
      [] f.name = "scripts-info" -> convertScriptsInfoToSmartRun(p)
      [] f.name = "scripts-description" -> convertScriptsDescriptionToSmartRun(p)
      [] f.name = "npm-scripts-org" -> convertNpmScriptsToSmartRun(p)
      [] f.name = "basic" -> BasicParse(p)
      [] OTHER -> <<>>

\* the comparator of register's sort
PriorityCmpAscending(a, b) == a.priority - b.priority
PriorityCmp(a, b) == b.priority - a.priority

\* Array.prototype.sort with PriorityCmp: a stable insertion sort
RECURSIVE InsertByPriority(_, _)
InsertByPriority(sorted, x) ==
    IF sorted = <<>> THEN <<x>>
    ELSE IF PriorityCmp(sorted[Len(sorted)], x) > 0
    THEN Append(InsertByPriority(SubSeq(sorted, 1, Len(sorted) - 1), x), sorted[Len(sorted)])
    ELSE Append(sorted, x)

RECURSIVE SortByPriority(_)
SortByPriority(s) ==
    IF s = <<>> THEN <<>>
    ELSE InsertByPriority(SortByPriority(SubSeq(s, 1, Len(s) - 1)), s[Len(s)])

\* a register that pushes and does not sort
RegisterUnsorted(formats, f) == Append(formats, f)

\* FormatRegistry.register
Register(formats, f) == SortByPriority(Append(formats, f))

RECURSIVE RegisterAll(_, _)
RegisterAll(formats, fs) ==
    IF fs = <<>> THEN formats ELSE RegisterAll(Register(formats, Head(fs)), Tail(fs))

createDefaultRegistry == RegisterAll(<<>>, DefaultFormats)

\* FormatRegistry.detect
RegistryDetect(formats, p) == SelectSeq(formats, LAMBDA f : FormatDetect(f, p))

\* FormatRegistry.getBestFormat: this.detect(pkg, configFiles)[0] || null
getBestFormat(formats, p) ==
    IF RegistryDetect(formats, p) = <<>> THEN NoFormat ELSE RegistryDetect(formats, p)[1]

-----------------------------------------------------------------------------
(* The files: a written file is a sequence of lines, each a tagged value *)

Line(t, v) == [t |-> t, v |-> v]
sTrue == <<"t", "r", "u", "e">>

NoFile == [exists |-> FALSE, lines |-> <<>>]
File(lines) == [exists |-> TRUE, lines |-> lines]

\* the lines of one property of a descriptor: none when the property is absent,
\* and none for JSON.stringify when its value is undefined
PropertyLines(t, v) ==
    IF v = Absent \/ v = Undef THEN <<>> ELSE <<Line(t, v)>>

DescriptorLines(d) ==
    PropertyLines("key", d.key) \o PropertyLines("description", d.description)
        \o PropertyLines("title", d.title) \o PropertyLines("emoji", d.emoji)

GroupLines(g) ==
    <<Line("group", g.name)>>
        \o Flatten([i \in 1..Len(g.scripts) |-> DescriptorLines(g.scripts[i])])

\* the lines of { scriptGroups }
ConfigLines(scriptGroups) ==
    <<Line("scriptGroups", <<>>)>>
        \o Flatten([i \in 1..Len(scriptGroups) |-> GroupLines(scriptGroups[i])])

\* yaml.dump throws on a property whose value is undefined (skipInvalid is off)
HasUndefined(scriptGroups) ==
    \E i \in 1..Len(scriptGroups) : \E j \in 1..Len(scriptGroups[i].scripts) :
        LET d == scriptGroups[i].scripts[j]
        IN  Undef \in {d.key, d.description, d.title, d.emoji}

\* `# ${comment}\n${yaml.dump(config)}`
YamlDump(comment, scriptGroups) == <<Line("comment", comment)>> \o ConfigLines(scriptGroups)

\* JSON.stringify(config, null, 2)
JsonStringify(scriptGroups) == ConfigLines(scriptGroups)

\* the linter options of a config or manifest: present says the object is there
NoLinter ==
    [present |-> FALSE, requireScriptGroups |-> FALSE, requireDescription |-> FALSE,
     requireEmoji |-> FALSE, requireTitle |-> FALSE]

LinterFlags == {"requireScriptGroups", "requireDescription", "requireEmoji", "requireTitle"}

\* what a parser has read so far; inScripts: the top-level scripts list is open
NoMeta == [isObject |-> FALSE, hasGroups |-> FALSE, scriptGroups |-> <<>>,
           includeLifecycleScripts |-> FALSE, failed |-> FALSE,
           hasScripts |-> FALSE, scripts |-> <<>>, inScripts |-> FALSE,
           titleizeKey |-> FALSE, linter |-> NoLinter]

SetLastDescriptor(m, field, v) ==
    LET gi == Len(m.scriptGroups)
        si == IF gi = 0 THEN 0 ELSE Len(m.scriptGroups[gi].scripts)
    IN  IF m.inScripts
        THEN IF m.scripts = <<>> THEN [m EXCEPT !.failed = TRUE]
             ELSE [m EXCEPT !.scripts[Len(m.scripts)][field] = v]
        ELSE IF si = 0 THEN [m EXCEPT !.failed = TRUE]
        ELSE [m EXCEPT !.scriptGroups[gi].scripts[si][field] = v]

LoadLine(m, l) ==
    CASE l.t = "comment" -> m
      [] l.t = "scriptGroups" ->
            [m EXCEPT !.isObject = TRUE, !.hasGroups = TRUE, !.inScripts = FALSE]
      [] l.t = "scripts" ->
            [m EXCEPT !.isObject = TRUE, !.hasScripts = TRUE, !.inScripts = TRUE]
      [] l.t = "includeLifecycleScripts" ->
            [m EXCEPT !.isObject = TRUE, !.includeLifecycleScripts = (l.v = sTrue)]
      [] l.t = "titleizeKey" -> [m EXCEPT !.isObject = TRUE, !.titleizeKey = (l.v = sTrue)]
      [] l.t \in LinterFlags ->
            [m EXCEPT !.isObject = TRUE, !.linter.present = TRUE,
                      !.linter[l.t] = (l.v = sTrue)]
      [] l.t = "group" -> [m EXCEPT !.scriptGroups = Append(@, Group(l.v, <<>>))]
      [] l.t = "key" ->
            IF m.inScripts THEN [m EXCEPT !.scripts = Append(@, Desc(l.v, Absent))]
            ELSE IF m.scriptGroups = <<>> THEN [m EXCEPT !.failed = TRUE]
            ELSE [m EXCEPT !.scriptGroups[Len(m.scriptGroups)].scripts =
                              Append(@, Desc(l.v, Absent))]
      [] l.t \in {"description", "title", "emoji"} -> SetLastDescriptor(m, l.t, l.v)
      [] OTHER -> [m EXCEPT !.failed = TRUE]

RECURSIVE LoadLines(_, _)
LoadLines(m, lines) ==
    IF lines = <<>> THEN m ELSE LoadLines(LoadLine(m, Head(lines)), Tail(lines))

\* yaml.load and JSON.parse of a written file; failed: the parser threw
Load(lines) == LoadLines(NoMeta, lines)

\* core/config getScriptGroups(configPath): configFile is the file at configPath,
\* isDefault says that configPath is 'package-meta.yaml'
getScriptGroups(p, configFile, isDefault) ==
    IF configFile.exists
    THEN LET meta == Load(configFile.lines)
         IN  IF meta.failed \/ ~meta.isObject \/ ~meta.hasGroups THEN <<>>
             ELSE meta.scriptGroups
    ELSE IF isDefault /\ p.hasMeta THEN p.metaGroups ELSE <<>>

\* the includeLifecycleScripts a later run reads (index.ts runSmartRun)
ReadIncludeLifecycle(p, configFile) ==
    IF configFile.exists
    THEN LET meta == Load(configFile.lines)
         IN  ~meta.failed /\ meta.isObject /\ meta.includeLifecycleScripts
    ELSE p.hasMeta /\ p.metaLifecycle

-----------------------------------------------------------------------------
(* migration/detect *)

\* detectExistingConfigurations: the types offered, in the order found
detectExistingConfigurations(p) ==
    (IF p.hasNtl THEN <<"ntl">> ELSE <<>>)
    \o (IF \E i \in 1..Len(ScriptsOf(p)) : StartsWith(ScriptsOf(p)[i][1], pNlHash)
        THEN <<"npm-scripts">> ELSE <<>>)
    \o (IF p.hasInfo \/ \E i \in 1..Len(ScriptsOf(p)) : StartsWith(ScriptsOf(p)[i][1], pQuestion)
        THEN <<"scripts-info">> ELSE <<>>)
    \o (IF p.hasSD THEN <<"scripts-description">> ELSE <<>>)
    \o (IF p.hasBetter THEN <<"better-scripts">> ELSE <<>>)

\* a classification that looks at scripts-info before ntl
detectConfigurationTypeInfoFirst(p) ==
    IF p.hasInfo THEN "npm-scripts-info"
    ELSE IF p.hasNtl THEN "ntl"
    ELSE IF \E i \in 1..Len(ScriptsOf(p)) : StartsWith(ScriptsOf(p)[i][1], pQuestion)
    THEN "npm-scripts-info"
    ELSE IF p.hasBetter THEN "better-scripts"
    ELSE IF \E i \in 1..Len(ScriptsOf(p)) :
                \/ StartsWith(ScriptsOf(p)[i][1], pNlHash)
                \/ StartsWith(ScriptsOf(p)[i][1], pComment)
                \/ StartsWith(ScriptsOf(p)[i][1], pHashSpace)
    THEN "npm-scripts-org"
    ELSE IF Len(ScriptsOf(p)) > 0 THEN "basic"
    ELSE "none"

\* detectConfigurationType: the first test that succeeds names the type
detectConfigurationType(p) ==
    IF p.hasNtl THEN "ntl"
    ELSE IF p.hasInfo THEN "npm-scripts-info"
    ELSE IF \E i \in 1..Len(ScriptsOf(p)) : StartsWith(ScriptsOf(p)[i][1], pQuestion)
    THEN "npm-scripts-info"
    ELSE IF p.hasBetter THEN "better-scripts"
    ELSE IF \E i \in 1..Len(ScriptsOf(p)) :
                \/ StartsWith(ScriptsOf(p)[i][1], pNlHash)
                \/ StartsWith(ScriptsOf(p)[i][1], pComment)
                \/ StartsWith(ScriptsOf(p)[i][1], pHashSpace)
    THEN "npm-scripts-org"
    ELSE IF Len(ScriptsOf(p)) > 0 THEN "basic"
    ELSE "none"

\* runMigration: the groups built for the selected configuration
MigrationGroups(selectedConfig, p) ==
    CASE selectedConfig = "ntl" -> NtlParse(p)
      [] selectedConfig = "npm-scripts" -> convertNpmScriptsToSmartRun(p)
      [] selectedConfig = "scripts-info" -> convertScriptsInfoToSmartRun(p)
      [] selectedConfig = "scripts-description" -> convertScriptsDescriptionToSmartRun(p)
      [] selectedConfig = "better-scripts" ->
            LET better == convertBetterScriptsToSmartRun(p)
            IN  << Group(nAvailable,
                     [i \in 1..Len(better) |->
                        [key |-> better[i].key,
                         description |-> better[i].description,
                         title |-> IF better[i].title = Absent THEN Undef ELSE better[i].title,
                         emoji |-> IF better[i].emoji = Absent THEN Undef ELSE better[i].emoji]]) >>

-----------------------------------------------------------------------------
(* The manifests and sidecars the commands are run on *)

EmptyPkg ==
    [scripts |-> <<>>,
     hasNtl |-> FALSE, ntl |-> <<>>,
     hasInfo |-> FALSE, info |-> <<>>,
     hasSD |-> FALSE, sd |-> <<>>,
     hasBetter |-> FALSE, better |-> <<>>,
     hasMeta |-> FALSE, metaGroups |-> <<>>, metaLifecycle |-> FALSE,
     hasScripts |-> TRUE, smartRunLinter |-> NoLinter, linter |-> NoLinter,
     name |-> <<"p", "k", "g">>]

ScriptEntries ==
    { <<kBuild, cWebpack>>, <<kBuild, <<>>>>, <<kTest, cJest>>,
      <<kHdrNl, <<>>>>, <<kHdrComment, cHdrValue>>,
      <<kHdrHash, <<>>>>, <<kHdrHash, cWebpack>>, <<kQBuild, cEcho>> }

ScriptMaps == DistinctKeySeqs(ScriptEntries, MaxScripts)

Documented == << <<kBuild, dBuild>>, <<kDeploy, dDeploy>> >>

NtlOptions == { <<FALSE, <<>>>>, <<TRUE, <<>>>>, <<TRUE, Documented>> }
InfoOptions == { <<FALSE, <<>>>>, <<TRUE, << <<kBuild, dInfo>>, <<kDeploy, dDeploy>> >> >> }
SDOptions == { <<FALSE, <<>>>>, <<TRUE, Documented>> }

aRocketDev == uRocket \o <<" ", "D", "e", "v">>

BetterOptions ==
    { <<FALSE, <<>>>>,
      <<TRUE, << <<kDeploy, BetterObject(cWebpack, Absent, aRocketDev)>>,
                 <<kBuild, BetterString(<<>>)>> >> >> }

MetaOptions ==
    { <<FALSE, <<>>, FALSE>>,
      <<TRUE, << Group(nGroupA, <<Desc(kBuild, dBuild)>>) >>, TRUE>> }

MigManifests ==
    { [EmptyPkg EXCEPT !.scripts = s,
                       !.hasNtl = n[1], !.ntl = n[2],
                       !.hasInfo = i[1], !.info = i[2],
                       !.hasSD = d[1], !.sd = d[2],
                       !.hasBetter = b[1], !.better = b[2],
                       !.hasMeta = m[1], !.metaGroups = m[2], !.metaLifecycle = m[3]] :
        s \in ScriptMaps, n \in NtlOptions, i \in InfoOptions, d \in SDOptions,
        b \in BetterOptions, m \in MetaOptions }

-----------------------------------------------------------------------------
(* The migration commands: convertConfig and runMigration *)

NoMigOut ==
    [op |-> "none", detected |-> NoFormat, source |-> "none", groups |-> <<>>,
     target |-> "none", before |-> EmptyPkg, configLifecycle |-> FALSE,
     redetected |-> NoFormat, reparsed |-> <<>>, reparsedLifecycle |-> FALSE,
     type |-> "none"]

MigInit ==
    /\ pkg \in MigManifests
    /\ yamlFile = NoFile
    /\ jsonFile = NoFile
    /\ pc = "idle"
    /\ out = NoMigOut

\* a manifest written anew around the embedded field
WithScriptsMetaOnly(p, scriptGroups) ==
    [EmptyPkg EXCEPT !.hasMeta = TRUE,
                     !.metaGroups = Load(JsonStringify(scriptGroups)).scriptGroups,
                     !.metaLifecycle = FALSE]

\* packageJson.scriptsMeta = { scriptGroups }, through JSON.stringify and JSON.parse
WithScriptsMeta(p, scriptGroups) ==
    [p EXCEPT !.hasMeta = TRUE,
              !.metaGroups = Load(JsonStringify(scriptGroups)).scriptGroups,
              !.metaLifecycle = FALSE]

\* application/convert convertConfig: throws when no format is detected
ConvertConfigFails ==
    /\ pc = "idle"
    /\ getBestFormat(createDefaultRegistry, pkg) = NoFormat
    /\ pc' = "failed"
    /\ out' = [NoMigOut EXCEPT !.op = "convertConfig", !.before = pkg]
    /\ UNCHANGED <<pkg, yamlFile, jsonFile>>

ConvertConfig(to) ==
    LET detected == getBestFormat(createDefaultRegistry, pkg)
        groups == FormatParse(detected, pkg)
    IN  /\ pc = "idle"
        /\ detected # NoFormat
        /\ out' = [NoMigOut EXCEPT !.op = "convertConfig", !.detected = detected,
                                   !.source = detected.name, !.groups = groups,
                                   !.target = to, !.before = pkg,
                                   !.configLifecycle =
                                       (detected = SmartRunFormat /\ pkg.metaLifecycle)]
        /\ pc' = IF to \in {"smart-run", "json", "scriptsMeta"} THEN "written" ELSE "done"
        /\ yamlFile' = IF to = "smart-run"
                       THEN File(YamlDump(<<"c">>, groups)) ELSE yamlFile
        /\ jsonFile' = IF to = "json" THEN File(JsonStringify(groups)) ELSE jsonFile
        /\ pkg' = IF to = "scriptsMeta" THEN WithScriptsMeta(pkg, groups) ELSE pkg

\* detectConfigurationType(pkg), as migrateToSmartRun calls it first
DetectConfigurationType ==
    /\ pc = "idle"
    /\ pc' = "done"
    /\ out' = [NoMigOut EXCEPT !.op = "detectConfigurationType",
                               !.type = detectConfigurationType(pkg),
                               !.before = pkg]
    /\ UNCHANGED <<pkg, yamlFile, jsonFile>>

\* runMigration: nothing to migrate
NoExistingConfiguration ==
    /\ pc = "idle"
    /\ detectExistingConfigurations(pkg) = <<>>
    /\ pc' = "done"
    /\ out' = [NoMigOut EXCEPT !.op = "runMigration", !.before = pkg]
    /\ UNCHANGED <<pkg, yamlFile, jsonFile>>

\* runMigration: the user picks one of the configurations found
SelectConfig(selectedConfig) ==
    /\ pc = "idle"
    /\ selectedConfig \in Range(detectExistingConfigurations(pkg))
    /\ pc' = "converted"
    /\ out' = [NoMigOut EXCEPT !.op = "runMigration", !.source = selectedConfig,
                               !.groups = MigrationGroups(selectedConfig, pkg),
                               !.before = pkg]
    /\ UNCHANGED <<pkg, yamlFile, jsonFile>>

\* migration/save saveConfiguration
SaveConfiguration(format) ==
    /\ pc = "converted"
    /\ out' = [out EXCEPT !.target = format]
    /\ IF format = "yaml" /\ HasUndefined(out.groups)
       THEN /\ pc' = "failed"
            /\ UNCHANGED <<pkg, yamlFile, jsonFile>>
       ELSE /\ pc' = "written"
            /\ yamlFile' = IF format = "yaml"
                           THEN File(YamlDump(<<"c">>, out.groups)) ELSE yamlFile
            /\ jsonFile' = IF format = "json"
                           THEN File(JsonStringify(out.groups)) ELSE jsonFile
            /\ pkg' = IF format = "scriptsMeta" THEN WithScriptsMeta(pkg, out.groups) ELSE pkg

\* a later run on the migrated output: detection and the reading of the config
Redetect ==
    /\ pc = "written"
    /\ pc' = "redetected"
    /\ out' = [out EXCEPT !.redetected = getBestFormat(createDefaultRegistry, pkg)]
    /\ UNCHANGED <<pkg, yamlFile, jsonFile>>

\* the config file a later run is pointed at: the sidecar that was written
WrittenFile == IF out.target = "json" THEN jsonFile ELSE yamlFile

Reparse ==
    /\ pc = "redetected"
    /\ pc' = "reparsed"
    /\ out' = [out EXCEPT
                 !.reparsed = getScriptGroups(pkg, WrittenFile, out.target # "json"),
                 !.reparsedLifecycle = ReadIncludeLifecycle(pkg, WrittenFile)]
    /\ UNCHANGED <<pkg, yamlFile, jsonFile>>

MigNext ==
    \/ ConvertConfigFails
    \/ \E to \in {"smart-run", "json", "scriptsMeta", "ntl"} : ConvertConfig(to)
    \/ DetectConfigurationType
    \/ NoExistingConfiguration
    \/ \E t \in {"ntl", "npm-scripts", "scripts-info", "scripts-description", "better-scripts"} :
          SelectConfig(t)
    \/ \E f \in {"yaml", "json", "scriptsMeta"} : SaveConfiguration(f)
    \/ Redetect
    \/ Reparse

SpecMig == MigInit /\ [][MigNext]_vars

-----------------------------------------------------------------------------
(* Properties of detection, conversion and writing, checked under SpecMig *)

GroupNames(groups) == [i \in 1..Len(groups) |-> groups[i].name]
GroupKeys(groups) ==
    Flatten([i \in 1..Len(groups) |->
                [j \in 1..Len(groups[i].scripts) |-> groups[i].scripts[j].key]])
Descriptors(groups) == Flatten([i \in 1..Len(groups) |-> groups[i].scripts])

\* names and keys, in order
Skeleton(groups) ==
    [i \in 1..Len(groups) |->
        <<groups[i].name, [j \in 1..Len(groups[i].scripts) |-> groups[i].scripts[j].key]>>]

RECURSIVE IsSubsequence(_, _)
IsSubsequence(a, b) ==
    IF a = <<>> THEN TRUE
    ELSE IF b = <<>> THEN FALSE
    ELSE IF Head(a) = Head(b) THEN IsSubsequence(Tail(a), Tail(b))
    ELSE IsSubsequence(a, Tail(b))

MatchingFormats(p) == {f \in Range(DefaultFormats) : FormatDetect(f, p)}

DocumentedPriority(name) ==
    CASE name = "smart-run" -> 200
      [] name = "ntl" -> 100
      [] name = "scripts-info" -> 80
      [] name = "scripts-description" -> 70
      [] name = "npm-scripts-org" -> 60
      [] name = "basic" -> 10

\* C2: getBestFormat on the default registry returns the one matching format of
\* highest priority (native 200 > ntl 100 > scripts-info 80 > scripts-description
\* 70 > npm-scripts-org 60 > basic 10) when some format's detect is true of the
\* manifest, and none when no format's detect is true.
C2_BestFormat ==
    out.op = "convertConfig" =>
        /\ \A f \in Range(createDefaultRegistry) : f.priority = DocumentedPriority(f.name)
        /\ IF MatchingFormats(out.before) = {}
           THEN out.detected = NoFormat
           ELSE /\ out.detected \in MatchingFormats(out.before)
                /\ \A f \in MatchingFormats(out.before) :
                      f # out.detected => f.priority < out.detected.priority

C2_Witness ==
    /\ out.op = "convertConfig"
    /\ Cardinality(MatchingFormats(out.before)) >= 3
    /\ out.detected = NtlFormat

LegacySources ==
    {"ntl", "scripts-info", "scripts-description", "npm-scripts-org", "npm-scripts",
     "better-scripts"}

\* C3: for every supported legacy format, converting a manifest in that format
\* and writing the result, then detecting again on the migrated output, gives
\* the native format.
C3_MigrationIdempotent ==
    (pc \in {"redetected", "reparsed"} /\ out.source \in LegacySources)
        => out.redetected = SmartRunFormat

\* a key that is a script, not a header marker or a `?` pseudo-script
IsPlainKey(k) == ~HasOrgPrefix(k) /\ ~StartsWith(k, pQuestion)

\* the keys of the structure a converter reads
SourceKeys(source, p) ==
    IF source = "better-scripts" THEN KeySet(p.better)
    ELSE {k \in KeySet(p.scripts) : IsPlainKey(k)}

\* the explicit description the source gives a key
ExplicitDescription(source, p, k) ==
    CASE source = "ntl" -> Get(getNtlDescriptions(p), k)
      [] source = "scripts-info" -> Get(getNpmScriptsInfoDescriptions(p), k)
      [] source = "scripts-description" -> Get(p.sd, k)
      [] source = "better-scripts" -> Get(p.better, k).description
      [] OTHER -> Undef

Converted == out.source \in LegacySources \cup {"basic"}

\* C4: a converter's output contains every script key of its source, and each
\* descriptor's description is not empty: the explicit description, else the raw
\* command, else `Run <key> script`.
C4_ConverterContract ==
    Converted =>
        /\ SourceKeys(out.source, out.before) \subseteq Range(GroupKeys(out.groups))
        /\ \A d \in Range(Descriptors(out.groups)) :
              /\ d.description # <<>>
              /\ d.description =
                    Or(Or(ExplicitDescription(out.source, out.before, d.key),
                          Get(out.before.scripts, d.key)),
                       RunKeyScript(d.key))

\* descriptors compared as JavaScript's deep equality does: a property whose value
\* is undefined is a property that is not there
NormalDescriptor(d) ==
    [f \in {"key", "description", "title", "emoji"} |-> IF d[f] = Undef THEN Absent ELSE d[f]]
Normal(groups) ==
    [i \in 1..Len(groups) |->
        Group(groups[i].name,
              [j \in 1..Len(groups[i].scripts) |-> NormalDescriptor(groups[i].scripts[j])])]

\* C6: a canonical config written to a sidecar and read again is the same
\* config: the same groups, with every field of every descriptor, and the same
\* includeLifecycleScripts.
C6_SidecarRoundTrip ==
    (pc = "reparsed" /\ out.target \in {"smart-run", "yaml", "json"}) =>
        /\ Normal(out.reparsed) = Normal(out.groups)
        /\ out.reparsedLifecycle = out.configLifecycle

\* the order in which the source lists what a converter reads
SourceOrder(source, p) ==
    CASE source = "better-scripts" -> MapKeys(p.better)
      [] source = "smart-run" -> GroupKeys(p.metaGroups)
      [] OTHER -> MapKeys(p.scripts)

HeaderNames(scripts) ==
    LET hs == SelectSeq(scripts, LAMBDA e : IsOrgHeader(e[1], e[2]))
    IN  [i \in 1..Len(hs) |-> OrgCategoryName(hs[i][1], hs[i][2])]

\* what the written target holds
WrittenGroups ==
    CASE out.target \in {"smart-run", "yaml"} -> Load(yamlFile.lines).scriptGroups
      [] out.target = "json" -> Load(jsonFile.lines).scriptGroups
      [] OTHER -> pkg.metaGroups

\* C8: groups, and the scripts within a group, come out of every converter in
\* the order of the source, and every written file holds them in the order they
\* were given to the writer.
C8_OrderPreserved ==
    /\ out.source # "none" =>
          /\ IsSubsequence(GroupKeys(out.groups), SourceOrder(out.source, out.before))
          /\ out.source \in {"npm-scripts-org", "npm-scripts"} =>
                /\ SelectSeq(GroupNames(out.groups), LAMBDA n : n # nScripts)
                       = HeaderNames(out.before.scripts)
                /\ \A i \in 1..Len(out.groups) : out.groups[i].name = nScripts => i = 1
    /\ pc \in {"written", "redetected", "reparsed"} =>
          Skeleton(WrittenGroups) = Skeleton(out.groups)

C8_Witness ==
    /\ pc = "written"
    /\ out.source \in {"npm-scripts-org", "npm-scripts"}
    /\ Len(out.groups) >= 2
    /\ Len(GroupKeys(out.groups)) >= 1

\* C9: a script that a legacy description map documents and the raw scripts do
\* not have is still a descriptor of the converter's output.
C9_DocumentedEmitted ==
    \A src \in {"ntl", "scripts-info", "scripts-description"} :
        out.source = src =>
            LET documented ==
                    CASE src = "ntl" -> KeySet(getNtlDescriptions(out.before))
                      [] src = "scripts-info" -> KeySet(getNpmScriptsInfoDescriptions(out.before))
                      [] OTHER -> KeySet(out.before.sd)
            IN  documented \subseteq Range(GroupKeys(out.groups))

\* the positions of the header entries of a scripts map, in order
HeaderPositions(scripts) ==
    LET RECURSIVE From(_)
        From(i) == IF i > Len(scripts) THEN <<>>
                   ELSE IF IsOrgHeader(scripts[i][1], scripts[i][2]) THEN <<i>> \o From(i + 1)
                   ELSE From(i + 1)
    IN  From(1)

\* the keys of the entries from position a to position b
KeysBetween(scripts, a, b) == [i \in 1..(b - a + 1) |-> scripts[a + i - 1][1]]

\* the position of the header after the n-th, or one past the last entry
NextHeader(scripts, hs, n) == IF n < Len(hs) THEN hs[n + 1] ELSE Len(scripts) + 1

ScriptKeysOf(group) == [i \in 1..Len(group.scripts) |-> group.scripts[i].key]

FromHeaderConverter == out.source \in {"npm-scripts-org", "npm-scripts"}

\* the number of groups that come before the groups of the headers
ImplicitGroups(scripts, hs) ==
    IF NextHeader(scripts, <<0>> \o hs, 1) > 1 THEN 1 ELSE 0

\* C13: the header converter scans the script entries in order: each header
\* entry opens a new group named from it, every following entry that is no
\* header belongs to that group until the next header, and the entries before
\* the first header are in an implicit group named "Scripts".
C13_HeaderGrouping ==
    FromHeaderConverter =>
        LET scripts == out.before.scripts
            hs == HeaderPositions(scripts)
            o == ImplicitGroups(scripts, hs)
        IN  /\ Len(out.groups) = o + Len(hs)
            /\ o = 1 =>
                  /\ out.groups[1].name = nScripts
                  /\ ScriptKeysOf(out.groups[1])
                        = KeysBetween(scripts, 1, NextHeader(scripts, <<0>> \o hs, 1) - 1)
            /\ \A n \in 1..Len(hs) :
                  /\ out.groups[o + n].name
                        = OrgCategoryName(scripts[hs[n]][1], scripts[hs[n]][2])
                  /\ ScriptKeysOf(out.groups[o + n])
                        = KeysBetween(scripts, hs[n] + 1, NextHeader(scripts, hs, n) - 1)

\* a key that begins with one of the comment markers
BeginsWithMarker(k) ==
    \/ (Len(k) >= 2 /\ SubSeq(k, 1, 2) = <<"\n", "#">>)
    \/ (Len(k) >= 8 /\ SubSeq(k, 1, 8) = <<"c", "o", "m", "m", "e", "n", "t", ":">>)
    \/ (Len(k) >= 2 /\ SubSeq(k, 1, 2) = <<"#", " ">>)

\* the formats that rank above the header organization
OutranksHeaders(p) ==
    \E f \in {SmartRunFormat, NtlFormat, ScriptsInfoFormat, ScriptsDescriptionFormat} :
        f \in Range(RegistryDetect(createDefaultRegistry, p))

HeadersDetected(p) == NpmScriptsOrgFormat \in Range(RegistryDetect(createDefaultRegistry, p))

FlatOnly(p) ==
    /\ ScriptsOf(p) # <<>>
    /\ ~p.hasNtl /\ ~p.hasInfo /\ ~p.hasSD /\ ~p.hasBetter /\ ~p.hasMeta
    /\ \A i \in 1..Len(ScriptsOf(p)) :
          /\ ~BeginsWithMarker(ScriptsOf(p)[i][1])
          /\ ~StartsWith(ScriptsOf(p)[i][1], pQuestion)

\* C26: for a manifest that has only a flat, non-empty scripts map the registry
\* selects the fallback format, and its parse is a single group that holds
\* every script key of the manifest.
C26_FlatFallback ==
    (out.op = "convertConfig" /\ FlatOnly(out.before)) =>
        /\ pc # "failed"
        /\ out.detected.name = "basic"
        /\ Len(out.groups) = 1
        /\ GroupKeys(out.groups) = MapKeys(ScriptsOf(out.before))

C26_Witness ==
    /\ out.op = "convertConfig"
    /\ FlatOnly(out.before)
    /\ Len(ScriptsOf(out.before)) = 2
    /\ \E i \in 1..2 : ScriptsOf(out.before)[i][2] = <<>>
    /\ out.detected.name = "basic"
    /\ Len(out.groups[1].scripts) = 2

\* the manifest that was classified, once detectConfigurationType has run
Classified == out.op = "detectConfigurationType"

HasKeyWith(p, prefix) == \E k \in KeySet(ScriptsOf(p)) : StartsWith(k, prefix)

\* the rules of the classification, in their order: <<applies, type>>
ClassificationRules(p) ==
    << <<p.hasNtl, "ntl">>,
       <<p.hasInfo \/ HasKeyWith(p, pQuestion), "npm-scripts-info">>,
       <<p.hasBetter, "better-scripts">>,
       <<\E k \in KeySet(ScriptsOf(p)) : BeginsWithMarker(k), "npm-scripts-org">>,
       <<ScriptsOf(p) # <<>>, "basic">> >>

\* C28: detectConfigurationType classifies a manifest by the first rule that
\* applies in the order ntl descriptions, scripts-info field or ?-key,
\* better-scripts field, header-marker key, non-empty scripts map, and answers
\* 'none' when no rule applies.
C28_FirstRuleWins ==
    Classified =>
        LET rules == ClassificationRules(out.before)
        IN  /\ \A i \in 1..Len(rules) :
                  (rules[i][1] /\ \A j \in 1..(i - 1) : ~rules[j][1]) =>
                      out.type = rules[i][2]
            /\ (\A i \in 1..Len(rules) : ~rules[i][1]) => out.type = "none"

\* a manifest with ntl descriptions, scripts-info, better-scripts and a header
\* marker together is classified ntl
C28_Witness ==
    /\ Classified
    /\ out.before.hasNtl /\ out.before.hasInfo /\ out.before.hasBetter
    /\ HasKeyWith(out.before, pComment)
    /\ out.type = "ntl"

\* the registry's name for a type of detectConfigurationType
Family(type) == IF type = "npm-scripts-info" THEN "scripts-info" ELSE type

\* C29: for every manifest, the format family detectConfigurationType chooses
\* is the format the default registry's getBestFormat chooses ('none' where
\* the registry finds no format).
C29_SameFamily ==
    Classified =>
        Family(out.type) = getBestFormat(createDefaultRegistry, out.before).name

\* the fields of the manifest that hold the embedded config
EmbeddedFields == {"hasMeta", "metaGroups", "metaLifecycle"}

\* C24: writing a config to the embedded target changes the embedded field
\* only: every other field of the manifest has the value it had before.
C24_OnlyEmbeddedFieldWritten ==
    (pc \in {"written", "redetected", "reparsed"} /\ out.target = "scriptsMeta") =>
        \A f \in (DOMAIN pkg) \ EmbeddedFields : pkg[f] = out.before[f]

C24_Witness ==
    /\ pc = "written"
    /\ out.target = "scriptsMeta"
    /\ ~out.before.hasMeta
    /\ pkg.hasMeta
    /\ pkg.metaGroups # <<>>
    /\ pkg.hasNtl
    /\ pkg.hasBetter
    /\ pkg.scripts # <<>>

-----------------------------------------------------------------------------
(* index.ts: the menu of runSmartRun *)

Null == <<"%null">>

\* a value that is a function (a member of Object.prototype)
NativeFunction == <<"%function">>

kToString == <<"t", "o", "S", "t", "r", "i", "n", "g">>
dTest == <<"T", "e", "s", "t", "s">>
dString == <<"P", "r", "i", "n", "t", "s">>
tBuild == <<"B", "u", "i", "l", "d">>

\* the names every plain object inherits from Object.prototype
ObjectPrototypeKeys ==
    { <<"c", "o", "n", "s", "t", "r", "u", "c", "t", "o", "r">>,
      <<"t", "o", "S", "t", "r", "i", "n", "g">>, <<"v", "a", "l", "u", "e", "O", "f">>,
      <<"h", "a", "s", "O", "w", "n", "P", "r", "o", "p", "e", "r", "t", "y">>,
      <<"i", "s", "P", "r", "o", "t", "o", "t", "y", "p", "e", "O", "f">>,
      <<"p", "r", "o", "p", "e", "r", "t", "y", "I", "s", "E", "n", "u", "m", "e", "r", "a", "b", "l", "e">>,
      <<"t", "o", "L", "o", "c", "a", "l", "e", "S", "t", "r", "i", "n", "g">> }

\* obj[k] on a plain object: an own property, else an inherited one, else undefined
Property(obj, k) ==
    IF Has(obj, k) THEN Get(obj, k)
    ELSE IF k \in ObjectPrototypeKeys THEN NativeFunction
    ELSE Undef

LowerChar(c) ==
    CASE c = "A" -> "a" [] c = "B" -> "b" [] c = "C" -> "c" [] c = "D" -> "d" [] c = "E" -> "e"
      [] c = "F" -> "f" [] c = "G" -> "g" [] c = "H" -> "h" [] c = "I" -> "i" [] c = "J" -> "j"
      [] c = "K" -> "k" [] c = "L" -> "l" [] c = "M" -> "m" [] c = "N" -> "n" [] c = "O" -> "o"
      [] c = "P" -> "p" [] c = "Q" -> "q" [] c = "R" -> "r" [] c = "S" -> "s" [] c = "T" -> "t"
      [] c = "U" -> "u" [] c = "V" -> "v" [] c = "W" -> "w" [] c = "X" -> "x" [] c = "Y" -> "y"
      [] c = "Z" -> "z"
      [] OTHER -> c

ToLowerCase(s) == [i \in 1..Len(s) |-> LowerChar(s[i])]

\* the loop of fuzzyScore; st = [score, searchIndex, consecutiveMatches]
RECURSIVE FuzzyLoop(_, _, _, _)
FuzzyLoop(searchLower, targetLower, i, st) ==
    IF i > Len(targetLower) \/ st.searchIndex >= Len(searchLower) THEN st
    ELSE IF targetLower[i] = searchLower[st.searchIndex + 1]
    THEN FuzzyLoop(searchLower, targetLower, i + 1,
                   [score |-> st.score + 1 + st.consecutiveMatches,
                    searchIndex |-> st.searchIndex + 1,
                    consecutiveMatches |-> st.consecutiveMatches + 1])
    ELSE FuzzyLoop(searchLower, targetLower, i + 1, [st EXCEPT !.consecutiveMatches = 0])

\* fuzzyScore comparing the characters as they are typed
fuzzyScoreCaseSensitive(search, target) ==
    IF search = <<>> THEN 0
    ELSE IF target = <<>> THEN -1
    ELSE LET st == FuzzyLoop(search, target, 1,
                             [score |-> 0, searchIndex |-> 0, consecutiveMatches |-> 0])
             prefix == IF StartsWith(target, search) THEN 10 ELSE 0
             exact == IF target = search THEN 20 ELSE 0
         IN  IF st.searchIndex = Len(search) THEN st.score + prefix + exact ELSE -1

\* fuzzyScore without the bonus for a prefix
fuzzyScoreNoPrefixBonus(search, target) ==
    IF search = <<>> THEN 0
    ELSE IF target = <<>> THEN -1
    ELSE LET searchLower == ToLowerCase(search)
             targetLower == ToLowerCase(target)
             st == FuzzyLoop(searchLower, targetLower, 1,
                             [score |-> 0, searchIndex |-> 0, consecutiveMatches |-> 0])
             exact == IF targetLower = searchLower THEN 20 ELSE 0
         IN  IF st.searchIndex = Len(searchLower) THEN st.score + exact ELSE -1

\* ui/fuzzy fuzzyMatch: the same loop without the score
fuzzyMatch(search, target) ==
    IF search = <<>> THEN TRUE
    ELSE IF target = <<>> THEN FALSE
    ELSE FuzzyLoop(ToLowerCase(search), ToLowerCase(target), 1,
                   [score |-> 0, searchIndex |-> 0, consecutiveMatches |-> 0]).searchIndex
            = Len(search)

fuzzyScore(search, target) ==
    IF search = <<>> THEN 0
    ELSE IF target = <<>> THEN -1
    ELSE LET searchLower == ToLowerCase(search)
             targetLower == ToLowerCase(target)
             st == FuzzyLoop(searchLower, targetLower, 1,
                             [score |-> 0, searchIndex |-> 0, consecutiveMatches |-> 0])
             prefix == IF StartsWith(targetLower, searchLower) THEN 10 ELSE 0
             exact == IF targetLower = searchLower THEN 20 ELSE 0
         IN  IF st.searchIndex = Len(searchLower) THEN st.score + prefix + exact ELSE -1

\* `${emoji} ` and the two layouts of formatScriptDisplayName
formatScriptDisplayName(s) ==
    LET emojiPart == IF Truthy(s.emoji) THEN s.emoji \o <<" ">> ELSE <<>>
    IN  IF Truthy(s.title)
        THEN <<" ", " ">> \o emojiPart \o s.title \o <<" ", "-", " ">> \o s.description
        ELSE <<" ", " ">> \o emojiPart \o <<"[">> \o s.key \o <<"]", " ">> \o s.description

\* `  [${key}] ${description}`
BracketName(key, description) ==
    <<" ", " ", "[">> \o key \o <<"]", " ">> \o description

lifecycleScripts ==
    << <<"p", "r", "e", "i", "n", "s", "t", "a", "l", "l">>,
      <<"i", "n", "s", "t", "a", "l", "l">>,
      <<"p", "o", "s", "t", "i", "n", "s", "t", "a", "l", "l">>,
      <<"p", "r", "e", "u", "n", "i", "n", "s", "t", "a", "l", "l">>,
      <<"u", "n", "i", "n", "s", "t", "a", "l", "l">>,
      <<"p", "o", "s", "t", "u", "n", "i", "n", "s", "t", "a", "l", "l">>,
      <<"p", "r", "e", "v", "e", "r", "s", "i", "o", "n">>,
      <<"v", "e", "r", "s", "i", "o", "n">>,
      <<"p", "o", "s", "t", "v", "e", "r", "s", "i", "o", "n">>,
      <<"p", "r", "e", "t", "e", "s", "t">>, <<"t", "e", "s", "t">>,
      <<"p", "o", "s", "t", "t", "e", "s", "t">>, <<"p", "r", "e", "s", "t", "o", "p">>,
      <<"s", "t", "o", "p">>, <<"p", "o", "s", "t", "s", "t", "o", "p">>,
      <<"p", "r", "e", "s", "t", "a", "r", "t">>, <<"s", "t", "a", "r", "t">>,
      <<"p", "o", "s", "t", "s", "t", "a", "r", "t">>,
      <<"p", "r", "e", "r", "e", "s", "t", "a", "r", "t">>,
      <<"r", "e", "s", "t", "a", "r", "t">>,
      <<"p", "o", "s", "t", "r", "e", "s", "t", "a", "r", "t">>,
      <<"p", "r", "e", "p", "u", "b", "l", "i", "s", "h">>,
      <<"p", "u", "b", "l", "i", "s", "h">>,
      <<"p", "o", "s", "t", "p", "u", "b", "l", "i", "s", "h">>,
      <<"p", "r", "e", "p", "u", "b", "l", "i", "s", "h", "O", "n", "l", "y">>,
      <<"p", "r", "e", "p", "a", "r", "e">>, <<"p", "r", "e", "p", "a", "c", "k">>,
      <<"p", "o", "s", "t", "p", "a", "c", "k">>,
      <<"p", "r", "e", "p", "r", "e", "p", "a", "r", "e">>,
      <<"p", "o", "s", "t", "p", "r", "e", "p", "a", "r", "e">>,
      <<"d", "e", "p", "e", "n", "d", "e", "n", "c", "i", "e", "s">> >>

nLifecycle == <<"L", "i", "f", "e", "c", "y", "c", "l", "e", " ", "S", "c", "r", "i", "p", "t", "s">>
nOther == <<"O", "t", "h", "e", "r", " ", "A", "v", "a", "i", "l", "a", "b", "l", "e", " ", "S", "c", "r", "i", "p", "t", "s">>

\* no group: the null getLifecycleScripts returns
NullGroup == [name |-> Null, scripts |-> <<>>]

\* core/scripts getLifecycleScripts: null when none of the names is a script
getLifecycleScripts(scripts) ==
    LET names == SelectSeq(lifecycleScripts, LAMBDA n : Truthy(Property(scripts, n)))
        found == [i \in 1..Len(names) |-> Desc(names[i], Property(scripts, names[i]))]
    IN  IF found = <<>> THEN NullGroup ELSE Group(nLifecycle, found)

\* key.replace(/^\n#\s*/, '').replace(/:?\s*$/, '')
NpmCategoryName(key) == StripColonSpaceEnd(StripLeadingSpace(Drop(key, Len(pNlHash))))

\* one iteration of parseNpmScriptGroups; st = [groups, hasCur, cur]
NpmGroupStep(st, e) ==
    LET key == e[1]
        value == e[2]
        d == Desc(key, value)
    IN  IF StartsWith(key, pNlHash) /\ value = <<>>
        THEN [groups |-> IF st.hasCur THEN Append(st.groups, st.cur) ELSE st.groups,
              hasCur |-> TRUE,
              cur |-> Group(NpmCategoryName(key), <<>>)]
        ELSE IF st.hasCur /\ ~StartsWith(key, pNlHash)
        THEN [st EXCEPT !.cur.scripts = Append(@, d)]
        ELSE IF ~st.hasCur /\ ~StartsWith(key, pNlHash)
        THEN [st EXCEPT !.groups = PushToScripts(@, d)]
        ELSE st

RECURSIVE NpmGroupLoop(_, _)
NpmGroupLoop(st, entries) ==
    IF entries = <<>> THEN st
    ELSE NpmGroupLoop(NpmGroupStep(st, Head(entries)), Tail(entries))

parseNpmScriptGroups(scripts) ==
    LET st == NpmGroupLoop([groups |-> <<>>, hasCur |-> FALSE, cur |-> Group(<<>>, <<>>)],
                           scripts)
    IN  IF st.hasCur THEN Append(st.groups, st.cur) ELSE st.groups

\* the entries that are scripts and not category headers
validScripts(scripts) ==
    SelectSeq(scripts, LAMBDA e : ~StartsWith(e[1], pNlHash) \/ e[2] # <<>>)

\* one entry of the choices array; section and key tell where it came from
Choice(section, kind, key, name, value, disabled) ==
    [section |-> section, kind |-> kind, key |-> key, name |-> name, value |-> value,
     disabled |-> disabled]

Header(section, name) == Choice(section, "header", Null, name, Null, "true")
Separator(section) == Choice(section, "separator", Null, <<" ">>, Null, "false")
Selectable(section, key, name) == Choice(section, "script", key, name, key, "false")
Missing(section, key, name) == Choice(section, "script", key, name, Null, "(MISSING)")

\* the choice of a configured descriptor: selectable when validScripts[s.key] is truthy
DescriptorChoice(valid, s) ==
    IF Truthy(Property(valid, s.key))
    THEN Selectable("primary", s.key, formatScriptDisplayName(s))
    ELSE Missing("primary", s.key, formatScriptDisplayName(s))

uCycle == <<"uD83D", "uDD04">>

\* the lifecycle section, pushed before every other choice
LifecycleChoices(lifecycleGroup) ==
    IF lifecycleGroup = NullGroup \/ Len(lifecycleGroup.scripts) = 0 THEN <<>>
    ELSE <<Header("lifecycle", uCycle \o <<" ">> \o lifecycleGroup.name)>>
            \o [i \in 1..Len(lifecycleGroup.scripts) |->
                  Selectable("lifecycle", lifecycleGroup.scripts[i].key,
                             BracketName(lifecycleGroup.scripts[i].key,
                                         lifecycleGroup.scripts[i].description))]
            \o <<Separator("lifecycle")>>

IsValidGroup(group) == Truthy(group.name)
IsValidScript(s) == Truthy(s.key) /\ Truthy(s.description)

\* Priority 1: the groups of package-meta.yaml or scriptsMeta
MetaChoices(metaGroups, valid) ==
    Flatten([i \in 1..Len(metaGroups) |->
        IF ~IsValidGroup(metaGroups[i]) THEN <<>>
        ELSE LET ss == SelectSeq(metaGroups[i].scripts, IsValidScript)
             IN  <<Header("primary", metaGroups[i].name)>>
                    \o [j \in 1..Len(ss) |-> DescriptorChoice(valid, ss[j])]
                    \o (IF i < Len(metaGroups) THEN <<Separator("primary")>> ELSE <<>>)])

\* what convertBetterScriptsToSmartRun leaves out is read as undefined
BetterGroupScript(d) ==
    [d EXCEPT !.title = IF @ = Absent THEN Undef ELSE @,
              !.emoji = IF @ = Absent THEN Undef ELSE @]

\* Priority 2: better-scripts, all under "Scripts"
BetterChoices(p, valid) ==
    LET ss == convertBetterScriptsToSmartRun(p)
    IN  <<Header("primary", nScripts)>>
            \o [j \in 1..Len(ss) |-> DescriptorChoice(valid, BetterGroupScript(ss[j]))]

\* Priority 3: the groups of the header pattern
NpmChoices(npmGroups, ntlDescriptions, infoDescriptions) ==
    Flatten([i \in 1..Len(npmGroups) |->
        <<Header("primary", npmGroups[i].name)>>
            \o [j \in 1..Len(npmGroups[i].scripts) |->
                  LET s == npmGroups[i].scripts[j]
                  IN  Selectable("primary", s.key,
                          BracketName(s.key,
                              Or(Or(Property(ntlDescriptions, s.key),
                                    Property(infoDescriptions, s.key)), s.description)))]
            \o (IF i < Len(npmGroups) THEN <<Separator("primary")>> ELSE <<>>)])

\* Priority 4 and 5, and the last resort: every valid script under "Available Scripts"
FlatChoices(section, valid, ntlDescriptions, infoDescriptions) ==
    <<Header(section, nAvailable)>>
        \o [j \in 1..Len(valid) |->
              Selectable(section, valid[j][1],
                  BracketName(valid[j][1],
                      Or(Or(Property(ntlDescriptions, valid[j][1]),
                            Property(infoDescriptions, valid[j][1])), valid[j][2])))]

\* the else-if chain of runSmartRun with the first branch last
PrimarySourceNativeLast(metaGroups, p, npmGroups, ntlDescriptions, infoDescriptions) ==
    IF p.hasBetter THEN "better-scripts"
    ELSE IF npmGroups # <<>> THEN "npm-scripts"
    ELSE IF ntlDescriptions # <<>> THEN "ntl"
    ELSE IF infoDescriptions # <<>> THEN "npm-scripts-info"
    ELSE IF metaGroups # <<>> THEN "package-meta.yaml"
    ELSE "none"

\* the else-if chain of runSmartRun: which configuration the menu is built from
PrimarySource(metaGroups, p, npmGroups, ntlDescriptions, infoDescriptions) ==
    IF metaGroups # <<>> THEN "package-meta.yaml"
    ELSE IF p.hasBetter THEN "better-scripts"
    ELSE IF npmGroups # <<>> THEN "npm-scripts"
    ELSE IF ntlDescriptions # <<>> THEN "ntl"
    ELSE IF infoDescriptions # <<>> THEN "npm-scripts-info"
    ELSE "none"

ScriptChoiceKeys(choices) ==
    {choices[i].key : i \in {j \in 1..Len(choices) : choices[j].kind = "script"}}

\* the scripts no section has listed, under "Other Available Scripts"
ExtraChoices(choices, categorized, valid, ntlDescriptions, infoDescriptions) ==
    LET extraScripts == SelectSeq(valid, LAMBDA e : e[1] \notin categorized)
    IN  IF extraScripts = <<>> THEN <<>>
        ELSE (IF choices # <<>> THEN <<Separator("extra")>> ELSE <<>>)
                \o <<Header("extra", nOther)>>
                \o [j \in 1..Len(extraScripts) |->
                      Selectable("extra", extraScripts[j][1],
                          BracketName(extraScripts[j][1],
                              Or(Or(Property(ntlDescriptions, extraScripts[j][1]),
                                    Property(infoDescriptions, extraScripts[j][1])),
                                 Property(valid, extraScripts[j][1]))))]

\* the choices array of runSmartRun, and the configuration it says it uses
BuildMenu(p, configFile) ==
    LET scripts == ScriptsOf(p)
        metaGroups == getScriptGroups(p, configFile, TRUE)
        npmGroups == parseNpmScriptGroups(scripts)
        ntlDescriptions == getNtlDescriptions(p)
        infoDescriptions == getNpmScriptsInfoDescriptions(p)
        lifecycleGroup == IF ReadIncludeLifecycle(p, configFile)
                          THEN getLifecycleScripts(scripts) ELSE NullGroup
        valid == validScripts(scripts)
        using == PrimarySource(metaGroups, p, npmGroups, ntlDescriptions, infoDescriptions)
        primary ==
            CASE using = "package-meta.yaml" -> MetaChoices(metaGroups, valid)
              [] using = "better-scripts" -> BetterChoices(p, valid)
              [] using = "npm-scripts" ->
                    NpmChoices(npmGroups, ntlDescriptions, infoDescriptions)
              [] using \in {"ntl", "npm-scripts-info"} ->
                    FlatChoices("primary", valid,
                                IF using = "ntl" THEN ntlDescriptions ELSE <<>>,
                                infoDescriptions)
              [] OTHER -> <<>>
        sections == LifecycleChoices(lifecycleGroup) \o primary
        withExtra == sections \o ExtraChoices(sections, ScriptChoiceKeys(sections), valid,
                                              ntlDescriptions, infoDescriptions)
    IN  [using |-> using,
         choices |-> IF withExtra # <<>> THEN withExtra
                     ELSE FlatChoices("fallback", valid, ntlDescriptions, infoDescriptions)]

\* an entry of autocompleteChoices
Auto(name, value) == [name |-> name, value |-> value, description |-> name]

vMigrate == <<"m", "i", "g", "r", "a", "t", "e">>
vTogglePreview == <<"t", "o", "g", "g", "l", "e", "-", "p", "r", "e", "v", "i", "e", "w">>
vExit == <<"e", "x", "i", "t">>

nMigrate ==
    <<"uD83D", "uDD04", " ", "M", "i", "g", "r", "a", "t", "e", " ", "C", "o", "n", "f",
      "i", "g", "u", "r", "a", "t", "i", "o", "n", " ", "-", " ", "C", "o", "n", "v", "e",
      "r", "t", " ", "e", "x", "i", "s", "t", "i", "n", "g", " ", "c", "o", "n", "f", "i",
      "g", "u", "r", "a", "t", "i", "o", "n", "s", " ", "t", "o", " ", "s", "m", "a", "r",
      "t", "-", "r", "u", "n", " ", "f", "o", "r", "m", "a", "t">>
nToggleOn ==
    <<"uD83D", "uDC41", "uFE0F", " ", "T", "o", "g", "g", "l", "e", " ", "C", "o", "m",
      "m", "a", "n", "d", " ", "P", "r", "e", "v", "i", "e", "w", " ", "-", " ", "C", "u",
      "r", "r", "e", "n", "t", "l", "y", " ", "O", "N">>
nToggleOff ==
    <<"uD83D", "uDC41", "uFE0F", " ", "T", "o", "g", "g", "l", "e", " ", "C", "o", "m",
      "m", "a", "n", "d", " ", "P", "r", "e", "v", "i", "e", "w", " ", "-", " ", "C", "u",
      "r", "r", "e", "n", "t", "l", "y", " ", "O", "F", "F">>
nExit == <<"E", "x", "i", "t">>

specialActions(previewCommand) ==
    << Auto(nMigrate, vMigrate),
       Auto(IF previewCommand THEN nToggleOn ELSE nToggleOff, vTogglePreview),
       Auto(nExit, vExit) >>

\* the filter that keeps every choice the user can pick
IsOffered(c) == c.kind # "separator" /\ c.value # Null /\ c.disabled = "false"

autocompleteChoices(choices, previewCommand) ==
    LET kept == SelectSeq(choices, IsOffered)
    IN  [i \in 1..Len(kept) |-> Auto(kept[i].name, kept[i].value)]
            \o specialActions(previewCommand)

\* a sort that lets an element pass the elements of its own score
RECURSIVE InsertByScoreUnstable(_, _)
InsertByScoreUnstable(sorted, x) ==
    IF sorted = <<>> THEN <<x>>
    ELSE IF x.score - sorted[Len(sorted)].score >= 0
    THEN Append(InsertByScoreUnstable(SubSeq(sorted, 1, Len(sorted) - 1), x),
                sorted[Len(sorted)])
    ELSE Append(sorted, x)

\* Array.prototype.sort by descending score: a stable insertion sort
RECURSIVE InsertByScore(_, _)
InsertByScore(sorted, x) ==
    IF sorted = <<>> THEN <<x>>
    ELSE IF x.score - sorted[Len(sorted)].score > 0
    THEN Append(InsertByScore(SubSeq(sorted, 1, Len(sorted) - 1), x), sorted[Len(sorted)])
    ELSE Append(sorted, x)

RECURSIVE SortByScore(_)
SortByScore(s) ==
    IF s = <<>> THEN <<>>
    ELSE InsertByScore(SortByScore(SubSeq(s, 1, Len(s) - 1)), s[Len(s)])

searchSource(input, auto) ==
    IF input = <<>> THEN auto
    ELSE LET scored == [i \in 1..Len(auto) |->
                           [choice |-> auto[i], score |-> fuzzyScore(input, auto[i].name)]]
             filtered == SortByScore(SelectSeq(scored, LAMBDA c : c.score >= 0))
         IN  [i \in 1..Len(filtered) |-> filtered[i].choice]

\* the key a generated `- key: ${key}` line is read back as: a key that starts a
\* comment leaves the value empty
YamlPlainKey(key) ==
    IF StartsWith(key, pNlHash) \/ StartsWith(key, pHashSpace) THEN Undef ELSE key

\* generateConfigFromPackageJson: one group "Scripts", every description ""
generateConfigFromPackageJson(p, configFile) ==
    IF ScriptsOf(p) = <<>> THEN configFile
    ELSE File(<<Line("comment", <<>>), Line("scriptGroups", <<>>), Line("group", nScripts)>>
                \o Flatten([i \in 1..Len(ScriptsOf(p)) |->
                              <<Line("key", YamlPlainKey(ScriptsOf(p)[i][1])),
                                Line("description", <<>>)>>]))

-----------------------------------------------------------------------------
(* The manifests and sidecars the menu is built from *)

uRocketTitle == [Desc(kBuild, dBuild) EXCEPT !.title = tBuild, !.emoji = uRocket]

\* a config that documents a lifecycle script, a script the manifest may lack, a
\* script with a title, and a name every object inherits
ConfigAB ==
    << Group(nGroupA, <<Desc(kTest, dTest), Desc(kDeploy, dDeploy)>>),
       Group(nGroupB, <<uRocketTitle, Desc(kToString, dString)>>) >>

\* a config whose only descriptor has no description
ConfigBlank == << Group(nGroupA, <<Desc(kBuild, <<>>)>>) >>

Sidecar(scriptGroups, includeLifecycleScripts) ==
    File(YamlDump(<<>>, scriptGroups)
            \o (IF includeLifecycleScripts
                THEN <<Line("includeLifecycleScripts", sTrue)>> ELSE <<>>))

\* where the canonical config is: <<scriptsMeta of package.json, package-meta.yaml>>
AggConfigs ==
    { <<<<FALSE, <<>>, FALSE>>, NoFile>>,
      <<<<TRUE, ConfigAB, TRUE>>, NoFile>>,
      <<<<FALSE, <<>>, FALSE>>, Sidecar(ConfigAB, TRUE)>>,
      <<<<FALSE, <<>>, FALSE>>, Sidecar(ConfigBlank, FALSE)>>,
      <<<<TRUE, ConfigAB, TRUE>>, File(<<Line("comment", <<>>)>>)>> }

AggScriptEntries ==
    { <<kBuild, cWebpack>>, <<kBuild, <<>>>>, <<kTest, cJest>>, <<kTest, <<>>>>,
      <<kHdrNl, <<>>>>, <<kQBuild, cEcho>> }

AggManifests ==
    { [EmptyPkg EXCEPT !.scripts = s,
                       !.hasNtl = n[1], !.ntl = n[2],
                       !.hasInfo = i[1], !.info = i[2],
                       !.hasBetter = b[1], !.better = b[2]] :
        s \in DistinctKeySeqs(AggScriptEntries, MaxScripts), n \in NtlOptions,
        i \in InfoOptions, b \in BetterOptions }

SearchInputs == { <<>>, <<"b">>, <<"t", "s">>, <<"z">> }

-----------------------------------------------------------------------------
(* runSmartRun: the setup offer, the menu, the search and the selection *)

NoAggOut ==
    [op |-> "none", previewCommand |-> FALSE, using |-> "none", choices |-> <<>>,
     auto |-> <<>>, input |-> <<>>, results |-> <<>>, script |-> Null]

AggInit ==
    /\ \E m \in AggManifests, c \in AggConfigs :
          /\ pkg = [m EXCEPT !.hasMeta = c[1][1], !.metaGroups = c[1][2],
                             !.metaLifecycle = c[1][3]]
          /\ yamlFile = c[2]
    /\ jsonFile = NoFile
    /\ pc = "start"
    /\ out = NoAggOut

\* no groups and no package-meta.yaml: runSmartRun offers the setup
NeedsSetup == getScriptGroups(pkg, yamlFile, TRUE) = <<>> /\ ~yamlFile.exists

\* offerConfigurationSetup answered 'ai', 'manual' or 'generate': runSmartRun returns
OfferConfigurationSetup(setupMethod) ==
    /\ pc = "start"
    /\ NeedsSetup
    /\ yamlFile' = IF setupMethod = "generate"
                   THEN generateConfigFromPackageJson(pkg, yamlFile) ELSE yamlFile
    /\ pc' = "exited"
    /\ out' = [out EXCEPT !.op = setupMethod]
    /\ UNCHANGED <<pkg, jsonFile>>

\* runSmartRun up to its prompt, the setup not offered or answered 'continue'
ShowMenu ==
    /\ pc = "start"
    /\ LET menu == BuildMenu(pkg, yamlFile)
           auto == autocompleteChoices(menu.choices, out.previewCommand)
       IN  out' = [out EXCEPT !.op = IF NeedsSetup THEN "continue" ELSE "menu",
                              !.using = menu.using,
                              !.choices = menu.choices,
                              !.auto = auto,
                              !.input = <<>>,
                              !.results = searchSource(<<>>, auto)]
    /\ pc' = "prompt"
    /\ UNCHANGED <<pkg, yamlFile, jsonFile>>

\* the user types: the prompt calls searchSource
Search(input) ==
    /\ pc = "prompt"
    /\ out' = [out EXCEPT !.input = input, !.results = searchSource(input, out.auto)]
    /\ UNCHANGED <<pkg, yamlFile, jsonFile, pc>>

\* the user picks a script among the results: runScript
RunScript(i) ==
    /\ pc = "prompt"
    /\ i \in 1..Len(out.results)
    /\ out.results[i].value \notin {vExit, vMigrate, vTogglePreview}
    /\ out' = [out EXCEPT !.script = out.results[i].value]
    /\ pc' = "ran"
    /\ UNCHANGED <<pkg, yamlFile, jsonFile>>

SelectExit ==
    /\ pc = "prompt"
    /\ \E i \in 1..Len(out.results) : out.results[i].value = vExit
    /\ out' = [out EXCEPT !.script = vExit]
    /\ pc' = "exited"
    /\ UNCHANGED <<pkg, yamlFile, jsonFile>>

\* runMigration takes over (the migration commands are specified above)
SelectMigrate ==
    /\ pc = "prompt"
    /\ \E i \in 1..Len(out.results) : out.results[i].value = vMigrate
    /\ out' = [out EXCEPT !.script = vMigrate]
    /\ pc' = "migrating"
    /\ UNCHANGED <<pkg, yamlFile, jsonFile>>

\* runSmartRun starts again with previewCommand negated
TogglePreview ==
    /\ pc = "prompt"
    /\ \E i \in 1..Len(out.results) : out.results[i].value = vTogglePreview
    /\ out' = [NoAggOut EXCEPT !.previewCommand = ~out.previewCommand]
    /\ pc' = "start"
    /\ UNCHANGED <<pkg, yamlFile, jsonFile>>

\* smart-run is run again
RunAgain ==
    /\ pc \in {"exited", "ran"}
    /\ out' = NoAggOut
    /\ pc' = "start"
    /\ UNCHANGED <<pkg, yamlFile, jsonFile>>

AggNext ==
    \/ \E setupMethod \in {"ai", "manual", "generate"} : OfferConfigurationSetup(setupMethod)
    \/ ShowMenu
    \/ \E input \in SearchInputs : Search(input)
    \/ \E i \in 1..(2 * MaxScripts + 4) : RunScript(i)
    \/ SelectExit
    \/ SelectMigrate
    \/ TogglePreview
    \/ RunAgain

SpecAgg == AggInit /\ [][AggNext]_vars

-----------------------------------------------------------------------------
(* Properties of the menu, checked under SpecAgg *)

MenuShown == pc \in {"prompt", "ran"}

\* the positions of the menu entries made for a key
EntriesFor(k) ==
    {i \in 1..Len(out.choices) : out.choices[i].kind = "script" /\ out.choices[i].key = k}

\* the keys of the canonical config in force
ConfigKeys == Range(GroupKeys(getScriptGroups(pkg, yamlFile, TRUE)))

\* C1: the menu has exactly one entry for each raw script key, none twice and
\* none left out, and each key that only the canonical config has appears once,
\* flagged missing.
C1_OneEntryPerKey ==
    MenuShown =>
        /\ \A k \in KeySet(validScripts(ScriptsOf(pkg))) : Cardinality(EntriesFor(k)) = 1
        /\ \A k \in ConfigKeys \ KeySet(ScriptsOf(pkg)) :
              /\ Cardinality(EntriesFor(k)) = 1
              /\ \A i \in EntriesFor(k) : out.choices[i].disabled = "(MISSING)"

MenuSources == <<"package-meta.yaml", "better-scripts", "npm-scripts", "ntl", "npm-scripts-info">>

\* whether a source of group structure applies to the manifest and its config
Applies(src) ==
    CASE src = "package-meta.yaml" -> Len(getScriptGroups(pkg, yamlFile, TRUE)) > 0
      [] src = "better-scripts" -> pkg.hasBetter
      [] src = "npm-scripts" -> Len(parseNpmScriptGroups(ScriptsOf(pkg))) > 0
      [] src = "ntl" -> Len(getNtlDescriptions(pkg)) > 0
      [] src = "npm-scripts-info" -> Len(getNpmScriptsInfoDescriptions(pkg)) > 0

\* the group names a source gives the menu
SourceGroupNames(src) ==
    CASE src = "package-meta.yaml" ->
            SelectSeq(GroupNames(getScriptGroups(pkg, yamlFile, TRUE)), Truthy)
      [] src = "better-scripts" -> <<nScripts>>
      [] src = "npm-scripts" -> GroupNames(parseNpmScriptGroups(ScriptsOf(pkg)))
      [] src \in {"ntl", "npm-scripts-info"} -> <<nAvailable>>
      [] OTHER -> <<>>

\* the group headers of the menu's primary structure
PrimaryHeaders ==
    LET hs == SelectSeq(out.choices, LAMBDA c : c.kind = "header" /\ c.section = "primary")
    IN  [i \in 1..Len(hs) |-> hs[i].name]

DescriptorEntries ==
    IF out.using \in {"package-meta.yaml", "better-scripts"}
    THEN {i \in 1..Len(out.choices) :
             out.choices[i].kind = "script" /\ out.choices[i].section = "primary"}
    ELSE {}

OfferedValues == {out.auto[i].value : i \in 1..Len(out.auto)}
ResultValues == {out.results[i].value : i \in 1..Len(out.results)}

\* C10: a descriptor whose key is a raw script is present and selectable; a
\* descriptor whose key is not a raw script is flagged missing and is
\* unselectable: it is not offered, not returned by a search and never run.
C10_PresentOrMissing ==
    MenuShown =>
        \A i \in DescriptorEntries :
            LET c == out.choices[i]
            IN  IF Has(ScriptsOf(pkg), c.key)
                THEN c.value = c.key /\ c.disabled = "false" /\ c.key \in OfferedValues
                ELSE /\ c.value = Null
                     /\ c.disabled = "(MISSING)"
                     /\ c.key \notin OfferedValues
                     /\ c.key \notin ResultValues
                     /\ out.script # c.key

\* the lifecycle names that are raw scripts, in the order of the fixed list
LifecycleNamesPresent == SelectSeq(lifecycleScripts, LAMBDA n : Has(ScriptsOf(pkg), n))

\* the keys of the script entries of a section of the menu, in menu order
SectionKeys(section) ==
    LET es == SelectSeq(out.choices, LAMBDA c : c.kind = "script" /\ c.section = section)
    IN  [i \in 1..Len(es) |-> es[i].key]

\* C11: when lifecycle inclusion is enabled and some lifecycle name is a raw
\* script, those scripts are a dedicated group that comes before every other
\* group, and none of them is under "Other Available Scripts".
C11_LifecycleFirst ==
    (MenuShown /\ ReadIncludeLifecycle(pkg, yamlFile) /\ LifecycleNamesPresent # <<>>) =>
        /\ Len(out.choices) > 0
        /\ out.choices[1] = Header("lifecycle", uCycle \o <<" ">> \o nLifecycle)
        /\ SectionKeys("lifecycle") = LifecycleNamesPresent
        /\ \A i, j \in 1..Len(out.choices) :
              (out.choices[i].section = "lifecycle" /\ out.choices[j].section # "lifecycle")
                  => i < j
        /\ Range(SectionKeys("extra")) \cap Range(LifecycleNamesPresent) = {}

\* the description of a raw script: the ntl value, else the scripts-info value,
\* else the command
ResolvedDescription(k) ==
    IF Has(getNtlDescriptions(pkg), k) /\ Truthy(Get(getNtlDescriptions(pkg), k))
    THEN Get(getNtlDescriptions(pkg), k)
    ELSE IF Has(getNpmScriptsInfoDescriptions(pkg), k)
            /\ Truthy(Get(getNpmScriptsInfoDescriptions(pkg), k))
    THEN Get(getNpmScriptsInfoDescriptions(pkg), k)
    ELSE Get(ScriptsOf(pkg), k)

\* a manifest with ntl descriptions and no native groups, no better-scripts and
\* no header markers
NtlOnly ==
    /\ Len(getNtlDescriptions(pkg)) > 0
    /\ getScriptGroups(pkg, yamlFile, TRUE) = <<>>
    /\ ~pkg.hasBetter
    /\ \A i \in 1..Len(ScriptsOf(pkg)) : ~HasOrgPrefix(ScriptsOf(pkg)[i][1])

MenuHeaders ==
    LET hs == SelectSeq(out.choices, LAMBDA c : c.kind = "header")
    IN  [i \in 1..Len(hs) |-> hs[i].name]

MenuScripts == SelectSeq(out.choices, LAMBDA c : c.kind = "script")

\* C12: for a manifest with a non-empty ntl descriptions map and no native
\* groups, no better-scripts field and no header markers, the menu lists all
\* raw scripts in one flat "Available Scripts" group, each description being
\* the ntl value, else the scripts-info value, else the raw command.
C12_NtlFlatGroup ==
    (MenuShown /\ NtlOnly) =>
        /\ MenuHeaders = <<nAvailable>>
        /\ [i \in 1..Len(MenuScripts) |-> MenuScripts[i].key] = MapKeys(ScriptsOf(pkg))
        /\ \A i \in 1..Len(MenuScripts) :
              /\ MenuScripts[i].value = MenuScripts[i].key
              /\ MenuScripts[i].name =
                    BracketName(MenuScripts[i].key, ResolvedDescription(MenuScripts[i].key))

\* C23: no component other than the migration writer writes to the manifest or
\* to a sidecar file: every step of runSmartRun, the setup offer and every path
\* through the menu included, leaves package.json, package-meta.yaml and
\* package-meta.json as they are.
C23_StorageUnchanged == [][UNCHANGED <<pkg, yamlFile, jsonFile>>]_vars

-----------------------------------------------------------------------------
(* The autocomplete prompt on its own: searchSource on every keystroke *)

MaxQuery == 2
MaxLabel == 3

Alphabet == {"a", "b", "A"}

Labels == UNION { [1..n -> Alphabet] : n \in 0..MaxLabel }

\* two candidates, told apart by their values
CandidatePairs == { <<Auto(a, <<"1">>), Auto(b, <<"2">>)>> : a, b \in Labels }

\* what the prompt shows for an input, with the scores and matches behind it
PromptOut(input, auto) ==
    [auto |-> auto, input |-> input, results |-> searchSource(input, auto),
     scores |-> [i \in 1..Len(auto) |-> fuzzyScore(input, auto[i].name)],
     matches |-> [i \in 1..Len(auto) |-> fuzzyMatch(input, auto[i].name)]]

\* the prompt opens: source(undefined)
FuzzyInit ==
    /\ pkg = EmptyPkg
    /\ yamlFile = NoFile
    /\ jsonFile = NoFile
    /\ pc = "prompt"
    /\ \E auto \in CandidatePairs : out = PromptOut(<<>>, auto)

\* the user types a character: source(input)
TypeChar(c) ==
    /\ Len(out.input) < MaxQuery
    /\ out' = PromptOut(Append(out.input, c), out.auto)
    /\ UNCHANGED <<pkg, yamlFile, jsonFile, pc>>

\* the user erases a character
EraseChar ==
    /\ out.input # <<>>
    /\ out' = PromptOut(SubSeq(out.input, 1, Len(out.input) - 1), out.auto)
    /\ UNCHANGED <<pkg, yamlFile, jsonFile, pc>>

FuzzyNext == (\E c \in Alphabet : TypeChar(c)) \/ EraseChar

SpecFuzzy == FuzzyInit /\ [][FuzzyNext]_vars

-----------------------------------------------------------------------------
(* Properties of the search, checked under SpecFuzzy *)

\* every character of q occurs in l, in the same order, whatever its case
RECURSIVE OccursInOrder(_, _)
OccursInOrder(q, l) ==
    \/ q = <<>>
    \/ \E i \in 1..Len(l) :
          /\ LowerChar(l[i]) = LowerChar(q[1])
          /\ OccursInOrder(Tail(q), SubSeq(l, i + 1, Len(l)))

\* C15: for a non-empty query, a candidate is among the search results if and
\* only if every character of the query occurs in its label in the same order,
\* compared without regard to case.
C15_SubsequenceFilter ==
    out.input # <<>> =>
        \A i \in 1..Len(out.auto) :
            /\ out.auto[i] \in Range(out.results)
                  <=> OccursInOrder(out.input, out.auto[i].name)
            /\ out.matches[i] <=> OccursInOrder(out.input, out.auto[i].name)

C15_Witness ==
    /\ out.input = <<"a", "b">>
    /\ out.auto[1].name = <<"b", "A", "b">>
    /\ out.auto[2].name = <<"b", "a">>
    /\ out.results = <<out.auto[1]>>

\* how a label stands to a query: 3 when they are equal but for case, 2 when
\* the label starts with the query, 1 when the query is in it as a subsequence
\* only, 0 when it is not in it
MatchRank(q, l) ==
    IF ToLowerCase(l) = ToLowerCase(q) THEN 3
    ELSE IF Len(l) >= Len(q) /\ ToLowerCase(SubSeq(l, 1, Len(q))) = ToLowerCase(q) THEN 2
    ELSE IF OccursInOrder(q, l) THEN 1
    ELSE 0

\* C16: for a non-empty query, a label equal to the query but for case scores
\* strictly more than a label that only starts with it, which scores strictly
\* more than a label that has it only as a scattered subsequence.
C16_ScoreRanking ==
    out.input # <<>> =>
        \A i, j \in 1..Len(out.auto) :
            (MatchRank(out.input, out.auto[i].name) > MatchRank(out.input, out.auto[j].name)
                /\ MatchRank(out.input, out.auto[j].name) > 0)
                => out.scores[i] > out.scores[j]

C16_Witness ==
    /\ out.input = <<"a", "b">>
    /\ out.auto[1].name = <<"b", "A", "b">>
    /\ out.auto[2].name = <<"A", "b", "a">>
    /\ out.scores[2] > out.scores[1]
    /\ out.scores[1] > 0

\* where a result stood among the candidates
PositionOf(r) == CHOOSE i \in 1..Len(out.auto) : out.auto[i] = r

\* C17: the results are in the order of descending score, results of the same
\* score keep the order the candidates had, and an empty query returns every
\* candidate in the original order.
C17_ResultOrder ==
    /\ out.input = <<>> => out.results = out.auto
    /\ \A a, b \in 1..Len(out.results) :
          a < b =>
              /\ out.scores[PositionOf(out.results[a])]
                    >= out.scores[PositionOf(out.results[b])]
              /\ out.scores[PositionOf(out.results[a])]
                    = out.scores[PositionOf(out.results[b])]
                  => PositionOf(out.results[a]) < PositionOf(out.results[b])

C17_Witness ==
    /\ out.input # <<>>
    /\ Len(out.results) = 2
    /\ out.scores[1] = out.scores[2]
    /\ out.auto[1].name # out.auto[2].name

-----------------------------------------------------------------------------
(* A registry on its own: register called in any order *)

MaxFormats == 3

\* a format of a plugin, with the priority of the ntl format
PluginFormat == [name |-> "plugin", priority |-> NtlFormat.priority]

RegFormats == Range(DefaultFormats) \cup {PluginFormat}

\* new FormatRegistry(): calls are the formats register was called with, in order
RegInit ==
    /\ pkg = EmptyPkg
    /\ yamlFile = NoFile
    /\ jsonFile = NoFile
    /\ pc = "registry"
    /\ out = [formats |-> <<>>, calls |-> <<>>]

\* registry.register(format)
RegisterFormat(format) ==
    /\ Len(out.calls) < MaxFormats
    /\ out' = [formats |-> Register(out.formats, format), calls |-> Append(out.calls, format)]
    /\ UNCHANGED <<pkg, yamlFile, jsonFile, pc>>

RegNext == \E format \in RegFormats : RegisterFormat(format)

SpecReg == RegInit /\ [][RegNext]_vars

-----------------------------------------------------------------------------
(* Properties of the registry, checked under SpecReg *)

\* how often f occurs in s
Occurrences(s, f) == Cardinality({i \in 1..Len(s) : s[i] = f})

\* C27: after any sequence of register calls, in any order, the format list is
\* ordered by non-increasing priority, and it holds the formats registered.
C27_SortedByPriority ==
    /\ \A i \in 1..(Len(out.formats) - 1) :
          out.formats[i].priority >= out.formats[i + 1].priority
    /\ Len(out.formats) = Len(out.calls)
    /\ \A f \in RegFormats : Occurrences(out.formats, f) = Occurrences(out.calls, f)

C27_Witness ==
    /\ Len(out.calls) = 3
    /\ out.calls[1].priority < out.calls[2].priority
    /\ out.calls[2].priority < out.calls[3].priority
    /\ out.formats = <<out.calls[3], out.calls[2], out.calls[1]>>

-----------------------------------------------------------------------------
(* The converters on their own: one converter applied to one manifest *)

MaxPieces == 3

sDemo == <<"D", "e", "m", "o">>

\* what aliases and descriptions are made of
Pieces == { uRocket, uCrane, <<" ">>, <<"\t">>, sDemo, <<"1">> }

Texts == { Flatten(ps) : ps \in UNION { [1..n -> Pieces] : n \in 0..MaxPieces } }

\* a manifest whose script build is described by t in every legacy field, and
\* whose better-scripts entry has t as its alias too
TextManifest(t) ==
    [EmptyPkg EXCEPT !.scripts = << <<kBuild, cWebpack>> >>,
                     !.hasNtl = TRUE, !.ntl = << <<kBuild, t>> >>,
                     !.hasInfo = TRUE, !.info = << <<kBuild, t>> >>,
                     !.hasSD = TRUE, !.sd = << <<kBuild, t>> >>,
                     !.hasBetter = TRUE,
                     !.better = << <<kBuild, BetterObject(cWebpack, t, t)>> >>]

\* and the manifests that have scripts only, with and without header keys
ConvManifests ==
    { TextManifest(t) : t \in Texts } \cup { [EmptyPkg EXCEPT !.scripts = s] : s \in ScriptMaps }

Converters ==
    {"ntl", "detect.ntl", "scripts-info", "scripts-description", "npm-scripts",
     "better-scripts"}

\* the groups a converter gives, none for the converters that return a record
Grouped_by(converter, p) ==
    CASE converter = "scripts-info" -> convertScriptsInfoToSmartRun(p)
      [] converter = "scripts-description" -> convertScriptsDescriptionToSmartRun(p)
      [] converter = "npm-scripts" -> convertNpmScriptsToSmartRun(p)
      [] OTHER -> <<>>

\* the descriptors a converter gives, in order
Converted_by(converter, p) ==
    CASE converter = "ntl" -> convertNtlToSmartRun(p)
      [] converter = "detect.ntl" -> Detect_convertNtlToSmartRun(p)
      [] converter = "better-scripts" -> convertBetterScriptsToSmartRun(p)
      [] OTHER -> Descriptors(Grouped_by(converter, p))

\* npmGroups: what parseNpmScriptGroups makes of the scripts of the same manifest
NoConvOut == [op |-> "none", descriptors |-> <<>>, groups |-> <<>>, npmGroups |-> <<>>]

ConvInit ==
    /\ pkg \in ConvManifests
    /\ yamlFile = NoFile
    /\ jsonFile = NoFile
    /\ pc = "idle"
    /\ out = NoConvOut

\* one converter is called on the manifest
Convert(converter) ==
    /\ pc = "idle"
    /\ out' = [NoConvOut EXCEPT !.op = converter,
                                !.descriptors = Converted_by(converter, pkg),
                                !.groups = Grouped_by(converter, pkg)]
    /\ pc' = "converted"
    /\ UNCHANGED <<pkg, yamlFile, jsonFile>>

\* runSmartRun on the same manifest: const npmGroups = parseNpmScriptGroups(scripts)
ParseNpmScriptGroups ==
    /\ pc = "converted"
    /\ out' = [out EXCEPT !.npmGroups = parseNpmScriptGroups(ScriptsOf(pkg))]
    /\ pc' = "parsed"
    /\ UNCHANGED <<pkg, yamlFile, jsonFile>>

\* the next call starts from the manifest again
ConvertAgain ==
    /\ pc \in {"converted", "parsed"}
    /\ out' = NoConvOut
    /\ pc' = "idle"
    /\ UNCHANGED <<pkg, yamlFile, jsonFile>>

ConvNext ==
    \/ \E converter \in Converters : Convert(converter)
    \/ ParseNpmScriptGroups
    \/ ConvertAgain

SpecConv == ConvInit /\ [][ConvNext]_vars

-----------------------------------------------------------------------------
(* Properties of the converters, checked under SpecConv *)

\* the first position of s that Boundary holds of, 0 when there is none
FirstBoundary(s, Boundary(_)) ==
    IF \E i \in 1..Len(s) : Boundary(s[i])
    THEN CHOOSE i \in 1..Len(s) : Boundary(s[i]) /\ \A j \in 1..(i - 1) : ~Boundary(s[j])
    ELSE 0

\* a token is classified as an emoji: an emoji code point and a short length
ClassifiedEmoji(token) == HasEmojiCodePoint(token) /\ Len(token) <= 4

\* the descriptor d is what the alias gives when it is split at position n: an
\* emoji first token is the emoji and the rest, without the white space around
\* it, the title (none when nothing is left); otherwise the alias is the title
SplitAs(alias, n, d) ==
    IF n > 0 /\ ClassifiedEmoji(SubSeq(alias, 1, n - 1))
    THEN /\ d.emoji = SubSeq(alias, 1, n - 1)
         /\ d.title = IF Trim(Drop(alias, n)) = <<>> THEN Absent ELSE Trim(Drop(alias, n))
    ELSE /\ d.title = alias
         /\ d.emoji = Absent

\* the better-scripts entries with an alias, once the converter has run
ConvertedAliases ==
    IF pc \in {"converted", "parsed"} /\ out.op = "better-scripts"
    THEN { i \in 1..Len(pkg.better) : Truthy(pkg.better[i][2].alias) }
    ELSE {}

C22_LeadingEmoji ==
    pc = "converted" =>
        \A i \in 1..Len(out.descriptors) :
            LET description == Get(pkg.ntl, out.descriptors[i].key)
            IN  (/\ Has(pkg.ntl, out.descriptors[i].key)
                 /\ EmojiRun(description) # <<>>
                 /\ Len(EmojiRun(description)) < Len(description)) =>
                    /\ out.descriptors[i].description = description
                    /\ out.descriptors[i].emoji = EmojiRun(description)

\* C30: for every scripts map, parseNpmScriptGroups and
\* convertNpmScriptsToSmartRun take the same keys for category headers and put
\* every other key into a group of the same name at the same position: the
\* two results have the same group names and the same keys, in the same order.
C30_SameGrouping ==
    (pc = "parsed" /\ out.op = "npm-scripts") =>
        Skeleton(out.groups) = Skeleton(out.npmGroups)

-----------------------------------------------------------------------------
(* config-linter.ts and linter/validators.ts: the rules of the linter *)

\* an issue: its level, its rule and the key or group it is about
Issue(level, rule, subject) == [level |-> level, rule |-> rule, subject |-> subject]

\* loadLinterConfig: config.linter || packageJson.smartRun?.linter || packageJson.linter || {}
loadLinterConfig(config, p) ==
    IF config.linter.present THEN config.linter
    ELSE IF p.smartRunLinter.present THEN p.smartRunLinter
    ELSE p.linter

hasScriptGroups(config) == Len(config.scriptGroups) > 0
hasFlatScripts(config) == Len(config.scripts) > 0

\* config.scriptGroups?.flatMap((g) => g.scripts) followed by config.scripts
AllScripts(config) ==
    Flatten([i \in 1..Len(config.scriptGroups) |-> config.scriptGroups[i].scripts])
        \o config.scripts

IsLowerLetter(c) == c \in {"a", "b", "c", "d", "e", "f", "g", "h", "i", "j", "k", "l", "m", "n", "o", "p",
                           "q", "r", "s", "t", "u", "v", "w", "x", "y", "z"}
IsUpperLetter(c) == LowerChar(c) # c

CapitalChar(c) ==
    IF IsLowerLetter(c) THEN CHOOSE u \in {"A", "B", "C", "D", "E", "F", "G", "H", "I", "J",
                                           "K", "L", "M", "N", "O", "P", "Q", "R", "S",
                                           "T", "U", "V", "W", "X", "Y", "Z"} :
                                 LowerChar(u) = c
    ELSE c

\* /[a-z][A-Z]/.test(key)
HasCamelHump(key) ==
    \E i \in 1..(Len(key) - 1) : IsLowerLetter(key[i]) /\ IsUpperLetter(key[i + 1])

\* .replace(/([a-z])([A-Z])/g, '$1 $2')
RECURSIVE SplitHumps(_)
SplitHumps(s) ==
    IF Len(s) < 2 THEN s
    ELSE IF IsLowerLetter(s[1]) /\ IsUpperLetter(s[2])
    THEN <<s[1], " ", s[2]>> \o SplitHumps(SubSeq(s, 3, Len(s)))
    ELSE <<s[1]>> \o SplitHumps(Tail(s))

\* ConfigLinter.titleize: separators to spaces, humps split, every word capitalized
titleize(scriptName) ==
    LET spaced == SplitHumps([i \in 1..Len(scriptName) |->
                                IF scriptName[i] \in {"-", "_", ":"} THEN " "
                                ELSE scriptName[i]])
    IN  [i \in 1..Len(spaced) |->
            IF i = 1 \/ spaced[i - 1] = " " THEN CapitalChar(spaced[i])
            ELSE LowerChar(spaced[i])]

IsString(v) == v # Undef /\ v # Absent

\* validators.ts validateScript: the issues of one descriptor
validateScript(script, cfg) ==
    (IF ~Truthy(script.key) THEN <<Issue("error", "required-fields", script.key)>> ELSE <<>>)
        \o (IF cfg.requireDescription /\ ~Truthy(script.description)
            THEN <<Issue("error", "required-fields", script.key)>>
            ELSE IF ~Truthy(script.description)
            THEN <<Issue("warning", "script-descriptions", script.key)>>
            ELSE <<>>)
        \o (IF cfg.requireEmoji /\ ~Truthy(script.emoji)
            THEN <<Issue("error", "required-fields", script.key)>> ELSE <<>>)
        \o (IF cfg.requireTitle /\ ~Truthy(script.title)
            THEN <<Issue("error", "required-fields", script.key)>> ELSE <<>>)

\* ConfigLinter.validateScript: the same, but a missing title is made from the key
\* when titleizeKey is set; titleize throws on a key that is no string
ConfigLinter_validateScript(script, cfg, config) ==
    LET makesTitle == ~Truthy(script.title) /\ config.titleizeKey
    IN  [issues |->
            (IF ~Truthy(script.key)
             THEN <<Issue("error", "required-fields", script.key)>> ELSE <<>>)
                \o (IF cfg.requireDescription /\ ~Truthy(script.description)
                    THEN <<Issue("error", "required-fields", script.key)>>
                    ELSE IF ~Truthy(script.description)
                    THEN <<Issue("warning", "script-descriptions", script.key)>>
                    ELSE <<>>)
                \o (IF cfg.requireEmoji /\ ~Truthy(script.emoji)
                    THEN <<Issue("error", "required-fields", script.key)>> ELSE <<>>)
                \o (IF cfg.requireTitle /\ ~Truthy(script.title) /\ ~config.titleizeKey
                    THEN <<Issue("error", "required-fields", script.key)>> ELSE <<>>),
         threw |-> makesTitle /\ ~IsString(script.key),
         script |-> IF makesTitle /\ IsString(script.key)
                    THEN [script EXCEPT !.title = titleize(script.key)] ELSE script]

\* a validated descriptor added to what the list has given so far
AfterScript(st, r) ==
    [issues |-> st.issues \o r.issues, threw |-> r.threw,
     scripts |-> Append(st.scripts, r.script)]

\* the descriptors of a list validated in order; st = [issues, threw, scripts]
RECURSIVE ConfigLinter_validateEach(_, _, _, _)
ConfigLinter_validateEach(st, scripts, cfg, config) ==
    IF scripts = <<>> \/ st.threw THEN st
    ELSE ConfigLinter_validateEach(
             AfterScript(st, ConfigLinter_validateScript(Head(scripts), cfg, config)),
             Tail(scripts), cfg, config)

GroupNameIssues(group) ==
    IF ~Truthy(group.name) THEN <<Issue("error", "required-fields", group.name)>> ELSE <<>>

\* validators.ts validateStructure
validateStructure(config, cfg) ==
    IF cfg.requireScriptGroups /\ ~hasScriptGroups(config)
    THEN <<Issue("error", "required-fields", Null)>>
    ELSE IF ~hasScriptGroups(config) /\ ~hasFlatScripts(config)
    THEN <<Issue("error", "required-fields", Null)>>
    ELSE Flatten([i \in 1..Len(config.scriptGroups) |->
                    GroupNameIssues(config.scriptGroups[i])
                        \o Flatten([j \in 1..Len(config.scriptGroups[i].scripts) |->
                              validateScript(config.scriptGroups[i].scripts[j], cfg)])])
            \o Flatten([j \in 1..Len(config.scripts) |-> validateScript(config.scripts[j], cfg)])

\* a validated group added to what the groups have given so far
AfterGroup(st, name, r) ==
    [issues |-> r.issues, threw |-> r.threw,
     groups |-> Append(st.groups, Group(name, r.scripts))]

\* the groups validated in order; st = [issues, threw, groups]
RECURSIVE ConfigLinter_validateGroups(_, _, _, _)
ConfigLinter_validateGroups(st, groups, cfg, config) ==
    IF groups = <<>> \/ st.threw THEN st
    ELSE ConfigLinter_validateGroups(
             AfterGroup(st, Head(groups).name,
                        ConfigLinter_validateEach(
                            [issues |-> st.issues \o GroupNameIssues(Head(groups)),
                             threw |-> FALSE, scripts |-> <<>>],
                            Head(groups).scripts, cfg, config)),
             Tail(groups), cfg, config)

\* the flat scripts validated after the groups g
AfterGroups(config, g, cfg) ==
    ConfigLinter_validateEach([issues |-> g.issues, threw |-> g.threw, scripts |-> <<>>],
                              config.scripts, cfg, config)

\* the descriptors of a list, those that were validated as validateScript left them
TitledScripts(scripts, validated) ==
    [i \in 1..Len(scripts) |-> IF i <= Len(validated) THEN validated[i] ELSE scripts[i]]

TitledGroups(groups, validated) ==
    [i \in 1..Len(groups) |->
        IF i <= Len(validated)
        THEN Group(groups[i].name, TitledScripts(groups[i].scripts, validated[i].scripts))
        ELSE groups[i]]

\* the config with the titles the validation has filled in, up to where it threw
Validated(config, g, f) ==
    [issues |-> f.issues, threw |-> f.threw,
     config |-> [config EXCEPT !.scriptGroups = TitledGroups(config.scriptGroups, g.groups),
                               !.scripts = TitledScripts(config.scripts, f.scripts)]]

ValidatedGroups(config, g, cfg) == Validated(config, g, AfterGroups(config, g, cfg))

\* ConfigLinter.validateStructure: the issues, whether it threw, and the config
\* with the titles it has filled in
ConfigLinter_validateStructure(config, cfg) ==
    IF cfg.requireScriptGroups /\ ~hasScriptGroups(config)
    THEN [issues |-> <<Issue("error", "required-fields", Null)>>, threw |-> FALSE,
          config |-> config]
    ELSE IF ~hasScriptGroups(config) /\ ~hasFlatScripts(config)
    THEN [issues |-> <<Issue("error", "required-fields", Null)>>, threw |-> FALSE,
          config |-> config]
    ELSE ValidatedGroups(config,
                         ConfigLinter_validateGroups(
                             [issues |-> <<>>, threw |-> FALSE, groups |-> <<>>],
                             config.scriptGroups, cfg, config),
                         cfg)

\* the elements of s, each once, in the order of its first occurrence
RECURSIVE InsertionOrder(_)
InsertionOrder(s) ==
    IF s = <<>> THEN <<>>
    ELSE LET rest == InsertionOrder(SubSeq(s, 1, Len(s) - 1))
         IN  IF s[Len(s)] \in Range(rest) THEN rest ELSE Append(rest, s[Len(s)])

\* the keys seen a second time, in the order in which that happens
DuplicateKeys(keys) ==
    InsertionOrder(SelectSeq([i \in 1..Len(keys) |->
                                 IF keys[i] \in Range(SubSeq(keys, 1, i - 1))
                                 THEN <<TRUE, keys[i]>> ELSE <<FALSE, keys[i]>>],
                             LAMBDA e : e[1]))

ConfigScriptKeys(config) ==
    [i \in 1..Len(AllScripts(config)) |-> AllScripts(config)[i].key]

\* validators.ts validateAgainstPackage
validateAgainstPackage(config, p) ==
    IF ~p.hasScripts THEN <<Issue("warning", "missing-scripts", Null)>>
    ELSE LET packageScripts == MapKeys(ScriptsOf(p))
             configScripts == InsertionOrder(ConfigScriptKeys(config))
             duplicateScripts == DuplicateKeys(ConfigScriptKeys(config))
             unused == SelectSeq(configScripts, LAMBDA k : k \notin Range(packageScripts))
             missing == SelectSeq(packageScripts, LAMBDA k : k \notin Range(configScripts))
         IN  [i \in 1..Len(duplicateScripts) |->
                 Issue("error", "duplicate-scripts", duplicateScripts[i][2])]
                \o [i \in 1..Len(unused) |-> Issue("warning", "unused-scripts", unused[i])]
                \o [i \in 1..Len(missing) |-> Issue("warning", "missing-scripts", missing[i])]

\* ConfigLinter.validateScripts
ConfigLinter_validateScripts(config, p) ==
    IF ~p.hasScripts THEN <<Issue("warning", "missing-scripts", Null)>>
    ELSE LET packageScripts == MapKeys(ScriptsOf(p))
             keys == ConfigScriptKeys(config)
             duplicateScripts == DuplicateKeys(keys)
             unused == SelectSeq(InsertionOrder(keys),
                                 LAMBDA k : k \notin Range(packageScripts))
             missing == SelectSeq(packageScripts, LAMBDA k : k \notin Range(keys))
         IN  [i \in 1..Len(duplicateScripts) |->
                 Issue("error", "duplicate-scripts", duplicateScripts[i][2])]
                \o [i \in 1..Len(unused) |-> Issue("warning", "unused-scripts", unused[i])]
                \o [i \in 1..Len(missing) |-> Issue("warning", "missing-scripts", missing[i])]

\* the lengths the content rules compare with
ShortDescription == 10
LongDescription == 100
LongTitle == 30
LongGroupName == 50
EmojiLength == 2

\* validateScriptContent: the same in both linters
validateScriptContent(scripts) ==
    Flatten([i \in 1..Len(scripts) |->
        LET s == scripts[i]
        IN  (IF Truthy(s.description) /\ Len(s.description) < ShortDescription
             THEN <<Issue("info", "description-length", s.key)>>
             ELSE IF Truthy(s.description) /\ Len(s.description) > LongDescription
             THEN <<Issue("info", "description-length", s.key)>>
             ELSE <<>>)
                \o (IF Truthy(s.title) /\ s.title = s.key
                    THEN <<Issue("info", "title-format", s.key)>> ELSE <<>>)
                \o (IF Truthy(s.title) /\ Len(s.title) > LongTitle
                    THEN <<Issue("info", "title-format", s.key)>> ELSE <<>>)
                \o (IF Truthy(s.emoji) /\ Len(s.emoji) > EmojiLength
                    THEN <<Issue("warning", "emoji-consistency", s.key)>> ELSE <<>>)])

\* validateContent: the same in both linters
validateContent(config) ==
    Flatten([i \in 1..Len(config.scriptGroups) |->
        LET group == config.scriptGroups[i]
            emojis == SelectSeq(group.scripts, LAMBDA s : Truthy(s.emoji))
        IN  (IF Truthy(group.name) /\ Len(group.name) > LongGroupName
             THEN <<Issue("info", "title-format", group.name)>> ELSE <<>>)
                \o (IF Len(emojis) > 0 /\ Len(emojis) < Len(group.scripts)
                    THEN <<Issue("warning", "emoji-consistency", group.name)>> ELSE <<>>)
                \o validateScriptContent(group.scripts)])
        \o (IF config.hasScripts THEN validateScriptContent(config.scripts) ELSE <<>>)

Includes(s, c) == \E i \in 1..Len(s) : s[i] = c

Count(scripts, Test(_)) == Len(SelectSeq(scripts, LAMBDA s : Test(s.key)))

Max(S) == CHOOSE m \in S : \A n \in S : n <= m

ManyScripts == 5
FewScripts == 3

\* the warning validateBestPractices gives before it looks at the keys
OrganizationIssues(config) ==
    IF Len(AllScripts(config)) > ManyScripts /\ ~hasScriptGroups(config)
    THEN <<Issue("warning", "script-organization", Null)>> ELSE <<>>

\* script.key.includes throws when a key is no string
BestPracticesThrows(config) ==
    \E i \in 1..Len(AllScripts(config)) : ~IsString(AllScripts(config)[i].key)

\* maxNaming / total < 0.8 and total > 3
NamingIssues(config) ==
    LET all == AllScripts(config)
        kebab == Count(all, LAMBDA k : Includes(k, "-"))
        camel == Count(all, HasCamelHump)
        snake == Count(all, LAMBDA k : Includes(k, "_"))
        colon == Count(all, LAMBDA k : Includes(k, ":"))
        maxNaming == Max({kebab, camel, snake, colon})
    IN  IF Len(all) > FewScripts /\ 10 * maxNaming < 8 * Len(all)
        THEN <<Issue("info", "naming-consistency", Null)>> ELSE <<>>

\* validateBestPractices: the same in both linters, when it does not throw
validateBestPractices(config) == OrganizationIssues(config) \o NamingIssues(config)

\* s has p at position i
HasAt(s, i, p) == i >= 1 /\ i + Len(p) - 1 <= Len(s) /\ SubSeq(s, i, i + Len(p) - 1) = p

\* the first position from i on that holds no white space
RECURSIVE SkipSpace(_, _)
SkipSpace(s, i) == IF i <= Len(s) /\ IsSpace(s[i]) THEN SkipSpace(s, i + 1) ELSE i

sRm == <<"r", "m">>
sRf == <<"-", "r", "f">>
sSudo == <<"s", "u", "d", "o">>
sDevNull == <<"/", "d", "e", "v", "/", "n", "u", "l", "l">>
sStderr == <<"2", ">", "&", "1">>

\* /rm\s+-rf\s+\//
MatchesRecursiveDelete(cmd) ==
    \E i \in 1..Len(cmd) :
        /\ HasAt(cmd, i, sRm)
        /\ SkipSpace(cmd, i + 2) > i + 2
        /\ HasAt(cmd, SkipSpace(cmd, i + 2), sRf)
        /\ SkipSpace(cmd, SkipSpace(cmd, i + 2) + 3) > SkipSpace(cmd, i + 2) + 3
        /\ HasAt(cmd, SkipSpace(cmd, SkipSpace(cmd, i + 2) + 3), <<"/">>)

\* /sudo\s+/
MatchesSudo(cmd) ==
    \E i \in 1..Len(cmd) : HasAt(cmd, i, sSudo) /\ SkipSpace(cmd, i + 4) > i + 4

\* />\s*\/dev\/null\s*2>&1/
MatchesSilenced(cmd) ==
    \E i \in 1..Len(cmd) :
        /\ cmd[i] = ">"
        /\ HasAt(cmd, SkipSpace(cmd, i + 1), sDevNull)
        /\ HasAt(cmd, SkipSpace(cmd, SkipSpace(cmd, i + 1) + 9), sStderr)

\* ConfigLinter.validateSecurity: a warning for each pattern a command matches
validateSecurity(p) ==
    Flatten([i \in 1..Len(ScriptsOf(p)) |->
        LET name == ScriptsOf(p)[i][1]
            cmd == ScriptsOf(p)[i][2]
        IN  (IF MatchesRecursiveDelete(cmd)
             THEN <<Issue("warning", "script-security", name)>> ELSE <<>>)
                \o (IF MatchesSudo(cmd)
                    THEN <<Issue("warning", "script-security", name)>> ELSE <<>>)
                \o (IF MatchesSilenced(cmd)
                    THEN <<Issue("warning", "script-security", name)>> ELSE <<>>)])

CountLevel(issues, level) == Len(SelectSeq(issues, LAMBDA i : i.level = level))

NoReport ==
    [exists |-> FALSE, total |-> 0, errors |-> 0, warnings |-> 0, info |-> 0,
     passed |-> FALSE]

\* the summary with a verdict that looks at the errors only
SummaryErrorsOnly(issues) ==
    [exists |-> TRUE, total |-> Len(issues),
     errors |-> CountLevel(issues, "error"),
     warnings |-> CountLevel(issues, "warning"),
     info |-> CountLevel(issues, "info"),
     passed |-> CountLevel(issues, "error") = 0]

\* ConfigLinter.generateReport: the summary
generateReport(issues) ==
    [exists |-> TRUE, total |-> Len(issues),
     errors |-> CountLevel(issues, "error"),
     warnings |-> CountLevel(issues, "warning"),
     info |-> CountLevel(issues, "info"),
     passed |-> CountLevel(issues, "error") = 0 /\ CountLevel(issues, "warning") = 0]

\* the summary lintDirectory of linter/validators.ts builds
LintSummary(issues) ==
    [exists |-> TRUE, total |-> Len(issues),
     errors |-> CountLevel(issues, "error"),
     warnings |-> CountLevel(issues, "warning"),
     info |-> CountLevel(issues, "info"),
     passed |-> CountLevel(issues, "error") = 0 /\ CountLevel(issues, "warning") = 0]

ConfigLoadError == Issue("error", "config-load-error", Null)

\* the validators that follow validateStructure, st being what it returned
AfterStructure(st, p) ==
    IF st.threw THEN Append(st.issues, ConfigLoadError)
    ELSE IF BestPracticesThrows(st.config)
    THEN Append(st.issues \o ConfigLinter_validateScripts(st.config, p)
                    \o validateContent(st.config) \o OrganizationIssues(st.config),
                ConfigLoadError)
    ELSE st.issues \o ConfigLinter_validateScripts(st.config, p)
            \o validateContent(st.config) \o validateBestPractices(st.config)
            \o validateSecurity(p)

LintLoaded(config, p) ==
    IF config.failed \/ ~config.isObject THEN <<ConfigLoadError>>
    ELSE AfterStructure(ConfigLinter_validateStructure(config, loadLinterConfig(config, p)),
                        p)

\* ConfigLinter.lintConfig: the issues it ends with; whatever is thrown becomes
\* one more error
ConfigLinter_lintConfig(configFile, p) ==
    IF ~configFile.exists THEN <<ConfigLoadError>>
    ELSE LintLoaded(Load(configFile.lines), p)

\* the config object lintConfig has loaded, as the run leaves it
ConfigLinter_configAfter(configFile, p) ==
    IF ~configFile.exists THEN NoMeta
    ELSE IF Load(configFile.lines).failed \/ ~Load(configFile.lines).isObject
    THEN Load(configFile.lines)
    ELSE ConfigLinter_validateStructure(
             Load(configFile.lines),
             loadLinterConfig(Load(configFile.lines), p)).config

\* the validators lintDirectory runs on a parsed config
LintValidated(config, cfg, p) ==
    IF BestPracticesThrows(config) THEN [threw |-> TRUE, issues |-> <<>>]
    ELSE [threw |-> FALSE,
          issues |-> validateStructure(config, cfg)
                        \o validateAgainstPackage(config, p)
                        \o validateContent(config)
                        \o validateBestPractices(config)]

LintParsed(config, p) ==
    IF config.failed \/ ~config.isObject THEN [threw |-> TRUE, issues |-> <<>>]
    ELSE LintValidated(config, loadLinterConfig(config, p), p)

\* lintDirectory of linter/validators.ts: threw when the try block is left early
LintIssues(configFile, p) ==
    IF ~configFile.exists THEN [threw |-> TRUE, issues |-> <<>>]
    ELSE LintParsed(Load(configFile.lines), p)

-----------------------------------------------------------------------------
(* The manifests and configs the linter is run on *)

kClean == <<"c", "l", "e", "a", "n">>
cSudoRm == <<"s", "u", "d", "o", " ", "r", "m", " ", "-", "r", "f", " ", "/", "t", "m", "p">>
cSilenced == <<"j", "e", "s", "t", " ", ">", " ", "/", "d", "e", "v", "/", "n", "u", "l", "l", " ", "2", ">", "&", "1">>
dBundle == <<"B", "u", "i", "l", "d", "s", " ", "t", "h", "e", " ", "b", "u", "n", "d", "l", "e">>

LintScriptEntries ==
    { <<kBuild, cWebpack>>, <<kBuild, cSilenced>>, <<kTest, cJest>>, <<kClean, cSudoRm>>,
      <<kDeploy, cWebpack>> }

RequireDescriptionAndTitle ==
    [NoLinter EXCEPT !.present = TRUE, !.requireDescription = TRUE, !.requireTitle = TRUE]
RequireEmoji == [NoLinter EXCEPT !.present = TRUE, !.requireEmoji = TRUE]

\* <<packageJson.smartRun.linter, packageJson.linter>>
LintOptions ==
    { <<NoLinter, NoLinter>>, <<NoLinter, RequireDescriptionAndTitle>>,
      <<RequireEmoji, RequireDescriptionAndTitle>> }

LintManifests ==
    { [EmptyPkg EXCEPT !.scripts = s, !.smartRunLinter = o[1], !.linter = o[2]] :
        s \in DistinctKeySeqs(LintScriptEntries, MaxScripts), o \in LintOptions }
        \cup { [EmptyPkg EXCEPT !.hasScripts = FALSE] }

\* the package-meta.yaml files: none, an empty one, and configs that are clean,
\* short of words, redundant, without a key, flat, and without a description
LintConfigs ==
    { NoFile,
      File(<<Line("comment", <<>>)>>),
      File(ConfigLines(<<Group(nGroupA, <<Desc(kBuild, dBundle)>>)>>)),
      File(ConfigLines(<<Group(nGroupA, <<Desc(kBuild, dBuild), Desc(kTest, dBundle)>>)>>)),
      File(ConfigLines(ConfigAB)),
      File(ConfigLines(<<Group(nGroupA, <<Desc(kBuild, dBundle), Desc(kBuild, dBuild)>>)>>)),
      File(<<Line("titleizeKey", sTrue)>>
              \o ConfigLines(<<Group(nGroupA, <<Desc(kBuild, dBundle)>>)>>)
              \o <<Line("key", Undef), Line("description", dBundle)>>),
      File(ConfigLines(<<Group(nGroupA, <<Desc(kBuild, dBundle)>>)>>)
              \o <<Line("key", Undef), Line("description", dBundle)>>),
      File(<<Line("requireScriptGroups", sTrue), Line("scripts", <<>>),
             Line("key", kBuild), Line("description", dBundle)>>),
      File(<<Line("titleizeKey", sTrue), Line("scripts", <<>>),
             Line("key", kBuild), Line("description", dBundle), Line("title", kBuild)>>),
      File(ConfigLines(ConfigBlank)) }

-----------------------------------------------------------------------------
(* The linter's entry points *)

\* config: the config object the run has loaded, as the run leaves it
NoLintOut ==
    [op |-> "none", issues |-> <<>>, report |-> NoReport, returned |-> FALSE,
     config |-> NoMeta]

LintInit ==
    /\ pkg \in LintManifests
    /\ yamlFile \in LintConfigs
    /\ jsonFile = NoFile
    /\ pc = "idle"
    /\ out = NoLintOut

\* what a run that made a report leaves: the report's verdict is what it returns
Reported(op, issues, report) ==
    [op |-> op, issues |-> issues, report |-> report, returned |-> report.passed,
     config |-> NoMeta]

ClassReport(op, issues) == Reported(op, issues, generateReport(issues))

\* new ConfigLinter().lintConfig(configPath, packageJsonPath)
LintConfig ==
    /\ pc = "idle"
    /\ out' = [ClassReport("lintConfig", ConfigLinter_lintConfig(yamlFile, pkg))
                  EXCEPT !.config = ConfigLinter_configAfter(yamlFile, pkg)]
    /\ pc' = "linted"
    /\ UNCHANGED <<pkg, yamlFile, jsonFile>>

\* config-linter.ts lintDirectory: false without a report when there is no config
ConfigLinterLintDirectory ==
    /\ pc = "idle"
    /\ IF ~yamlFile.exists
       THEN out' = [NoLintOut EXCEPT !.op = "ConfigLinter.lintDirectory"]
       ELSE out' = [ClassReport("ConfigLinter.lintDirectory",
                                ConfigLinter_lintConfig(yamlFile, pkg))
                       EXCEPT !.config = ConfigLinter_configAfter(yamlFile, pkg)]
    /\ pc' = "linted"
    /\ UNCHANGED <<pkg, yamlFile, jsonFile>>

DirectoryReport(r) ==
    IF r.threw THEN [NoLintOut EXCEPT !.op = "lintDirectory"]
    ELSE Reported("lintDirectory", r.issues, LintSummary(r.issues))

\* the config object lintDirectory has loaded: its validators only read it
configAfter(configFile) == IF configFile.exists THEN Load(configFile.lines) ELSE NoMeta

\* linter/validators.ts lintDirectory: false without a report when anything throws
LintDirectory ==
    /\ pc = "idle"
    /\ out' = [DirectoryReport(LintIssues(yamlFile, pkg))
                  EXCEPT !.config = configAfter(yamlFile)]
    /\ pc' = "linted"
    /\ UNCHANGED <<pkg, yamlFile, jsonFile>>

\* the linter is run again
LintAgain ==
    /\ pc = "linted"
    /\ pc' = "idle"
    /\ out' = NoLintOut
    /\ UNCHANGED <<pkg, yamlFile, jsonFile>>

LintNext == LintConfig \/ ConfigLinterLintDirectory \/ LintDirectory \/ LintAgain

SpecLint == LintInit /\ [][LintNext]_vars

-----------------------------------------------------------------------------
(* Properties of the linter, checked under SpecLint *)

IssuesAt(level) == {i \in 1..Len(out.issues) : out.issues[i].level = level}

\* C7: the report's passed verdict is true exactly when its error count and its
\* warning count are both zero, whatever its info count is; the counts are those
\* of the issues found, and the verdict is what the linter returns.
C7_PassedIffClean ==
    out.report.exists =>
        /\ out.report.errors = Cardinality(IssuesAt("error"))
        /\ out.report.warnings = Cardinality(IssuesAt("warning"))
        /\ out.report.info = Cardinality(IssuesAt("info"))
        /\ out.report.passed <=> (out.report.errors = 0 /\ out.report.warnings = 0)
        /\ out.returned = out.report.passed

C7_Witness ==
    /\ pc = "linted"
    /\ out.report.exists
    /\ out.report.passed
    /\ out.report.info > 0
    /\ out.op = "lintConfig"

\* the config a lint run reads, when package-meta.yaml holds one
Readable == yamlFile.exists /\ ~Load(yamlFile.lines).failed /\ Load(yamlFile.lines).isObject

\* the descriptor keys that occur more than once in that config
RepeatedKeys ==
    IF Readable
    THEN { k \in Range(ConfigScriptKeys(Load(yamlFile.lines))) :
             \E i, j \in 1..Len(ConfigScriptKeys(Load(yamlFile.lines))) :
                 /\ i < j
                 /\ ConfigScriptKeys(Load(yamlFile.lines))[i] = k
                 /\ ConfigScriptKeys(Load(yamlFile.lines))[j] = k }
    ELSE {}

\* C18: whenever a descriptor key occurs more than once within one config, the
\* lint run reports an error-severity finding for that key and its verdict is
\* not passed.
C18_DuplicateIsError ==
    pc = "linted" =>
        \A k \in RepeatedKeys :
            /\ out.report.exists
            /\ \E i \in 1..Len(out.issues) :
                   /\ out.issues[i].level = "error"
                   /\ out.issues[i].rule = "duplicate-scripts"
                   /\ out.issues[i].subject = k
            /\ ~out.report.passed
            /\ ~out.returned

\* the descriptors of the config that have no key
KeylessDescriptors ==
    IF Readable
    THEN { i \in 1..Len(AllScripts(Load(yamlFile.lines))) :
             ~Truthy(AllScripts(Load(yamlFile.lines))[i].key) }
    ELSE {}

\* C19: findings are collected and never raised: for any config and manifest,
\* a missing or malformed file and a descriptor without a key included, a lint
\* run ends with a report, and the report holds the findings made before
\* anything went wrong (the missing key of a descriptor among them).
C19_AlwaysReported ==
    pc = "linted" =>
        /\ out.report.exists
        /\ KeylessDescriptors # {} =>
               \E i \in 1..Len(out.issues) :
                   /\ out.issues[i].level = "error"
                   /\ out.issues[i].rule = "required-fields"

\* the raw scripts whose command one of the security heuristics matches
DangerousScripts ==
    { i \in 1..Len(ScriptsOf(pkg)) :
        \/ MatchesRecursiveDelete(ScriptsOf(pkg)[i][2])
        \/ MatchesSudo(ScriptsOf(pkg)[i][2])
        \/ MatchesSilenced(ScriptsOf(pkg)[i][2]) }

\* C20: every lint run applies the command-security heuristics to every raw
\* script command: each command that matches one of them has a finding in the
\* report.
C20_SecurityApplied ==
    pc = "linted" =>
        \A i \in DangerousScripts :
            /\ out.report.exists
            /\ \E j \in 1..Len(out.issues) :
                   /\ out.issues[j].rule = "script-security"
                   /\ out.issues[j].subject = ScriptsOf(pkg)[i][1]

\* C25: linting is pure: it does not modify the config object it is given, so
\* the config after a lint run is equal to the config that was loaded.
C25_ConfigUntouched ==
    (pc = "linted" /\ yamlFile.exists) => out.config = Load(yamlFile.lines)

====
